---- MODULE Spec2Model ----
(***************************************************************************)
(* Client-side cache, in-flight deduplication and job polling of the       *)
(* 3dmodel-app frontend (services/cache.ts, services/meshyClient.ts,       *)
(* services/sketchfabClient.ts, store/evalStore.ts).                       *)
(* The specifications of this module share its definitions, among them:    *)
(*   SpecDedupe  dedupe() driven by arbitrary callers and operations       *)
(*   SpecCache   cacheGet()/cacheSet() driven by arbitrary clients         *)
(*   SpecGen     generateModel(), which composes the two                   *)
(***************************************************************************)
EXTENDS Integers, Sequences, FiniteSets, TLC

VARIABLES
    inflight,   \* cache.ts `inflight`: Map key -> registered promise (an operation id)
    store,      \* the idb-keyval store: Map key -> {value, storedAt, ttlMs}
    idb,        \* IndexedDB transactions created and not yet completed, oldest first
    now,        \* Date.now(), in milliseconds
    ticks,      \* how often the clock has advanced (bounds the model)
    ncalls,     \* how many cache calls clients have made (bounds the model)
    ops,        \* SpecDedupe: the operations started through dedupe, in start order
    dcall,      \* SpecDedupe: per caller, its current dedupe() call
    ccall,      \* SpecCache: per client, its current cacheGet()/cacheSet() call
    expected,   \* SpecCache: what the completed writes and deletes should have left
    apiKey,     \* SpecGen: whether VITE_MESHY_API_KEY is configured (API_KEY is truthy)
    gcall,      \* SpecGen: per client, its current generateModel() call
    gops,       \* SpecGen: the operations generateModel started through dedupe
    plog,       \* SpecPoll: per operation, what its status reads have answered
    libKey,     \* SpecLib: whether VITE_BACKEND_API_KEY is configured (API_KEY is truthy)
    lcall,      \* SpecLib: per client, its current call of a sketchfabClient function
    lops,       \* SpecLib: the operations these calls started, in start order
    feedbacks,  \* SpecEval: evalStore state `feedbacks`, the list in memory
    metrics,    \* SpecEval: evalStore state `metrics`, the list in memory
    ecall       \* SpecEval: per client, its current call of an evalStore function

vars == <<inflight, store, idb, now, ticks, ncalls, ops, dcall, ccall, expected,
          apiKey, gcall, gops, plog, libKey, lcall, lops, feedbacks, metrics, ecall>>
storageVars == <<store, idb, now, ticks, ncalls>>
dedupeVars == <<ops, dcall>>
cacheVars == <<ccall, expected>>
genVars == <<apiKey, gcall, gops, plog>>
libVars == <<libKey, lcall, lops>>
evalVars == <<feedbacks, metrics, ecall>>

(***************************************************************************)
(* Bounds                                                                  *)
(***************************************************************************)
NumCallers == 2
MaxOps == 2

Callers == 1..NumCallers
DKeys == {1, 2}

\* `undefined` where an operation id is expected
NoPromise == 0

(***************************************************************************)
(* A JavaScript Map as a function whose domain is the set of keys present  *)
(***************************************************************************)
MapHas(m, k) == k \in DOMAIN m
MapGet(m, k, undef) == IF k \in DOMAIN m THEN m[k] ELSE undef
MapSet(m, k, v) == [x \in (DOMAIN m) \cup {k} |-> IF x = k THEN v ELSE m[x]]
MapDelete(m, k) == [x \in (DOMAIN m) \ {k} |-> m[x]]
EmptyMap == [x \in {} |-> 0]

(***************************************************************************)
(* dedupe(key, fn)                                                         *)
(*   const existing = inflight.get(key); if (existing) return existing;    *)
(*   const p = fn().finally(() => inflight.delete(key));                   *)
(*   inflight.set(key, p); return p;                                       *)
(***************************************************************************)
\* mutant: the lookup never finds the registered promise
DedupeExistingNever(m, key) == NoPromise

\* the promise dedupe returns without calling fn, or NoPromise
DedupeExisting(m, key) == MapGet(m, key, NoPromise)

\* mutant: .then() in place of .finally(): a rejected operation is never released
FinallyOnSuccessOnly(m, key, outcome) == IF outcome = "ok" THEN MapDelete(m, key) ELSE m

\* the .finally() callback, run once fn()'s promise has settled either way
FinallyCleanup(m, key, outcome) == MapDelete(m, key)

\* mutant: .catch() in place of .finally(): the returned promise fulfils after a failure
CatchOutcome(outcome) == "ok"

\* promise.finally(cb) settles as the promise it was called on did (cb does not throw)
FinallyOutcome(outcome) == outcome

\* mutant: the new promise is never stored in the registry
DedupeRegisterNothing(m, key, p) == m

\* inflight.set(key, p)
DedupeRegister(m, key, p) == MapSet(m, key, p)

(***************************************************************************)
(* cacheGet(key) / cacheSet(key, value, ttlMs?)                            *)
(*   record = await get(key); if (!record) return undefined;               *)
(*   ttlMs = record.ttlMs ?? DEFAULT_TTL_MS;                               *)
(*   if (Date.now() - record.storedAt > ttlMs) { await del(key); return undefined; } *)
(*   return record.value;                                                  *)
(*   await set(key, { value, storedAt: Date.now(), ttlMs });               *)
(***************************************************************************)
DEFAULT_TTL_MS == 86400000

\* an omitted ttlMs argument, and the ttlMs field of the record it leaves
TtlUndefined == -1

\* mutant: `||` in place of `??`: a ttlMs of 0 falls back to the default
EffectiveTtlOr(record) ==
    IF record.ttlMs = TtlUndefined \/ record.ttlMs = 0 THEN DEFAULT_TTL_MS ELSE record.ttlMs

\* record.ttlMs ?? DEFAULT_TTL_MS
EffectiveTtl(record) ==
    IF record.ttlMs = TtlUndefined THEN DEFAULT_TTL_MS ELSE record.ttlMs

\* mutant: `>=` in place of `>`: a record is dropped at the very end of its TTL
IsExpiredAtBoundary(record, t) == t - record.storedAt >= EffectiveTtl(record)

\* mutant: every record found is taken for expired
IsExpiredAlways(record, t) == TRUE

\* Date.now() - record.storedAt > ttlMs
IsExpired(record, t) == t - record.storedAt > EffectiveTtl(record)

\* what cacheGet does with the record it read at time t:
\* "miss" (no record), "evict" (del, then undefined) or "hit" (record.value)
CacheGetOutcome(st, key, t) ==
    IF ~MapHas(st, key) THEN "miss"
    ELSE IF IsExpired(st[key], t) THEN "evict"
    ELSE "hit"

\* mutant: the record keeps no timestamp of its own write
CacheSetRecordStale(value, t, ttlMs) == [value |-> value, storedAt |-> 0, ttlMs |-> ttlMs]

\* { value, storedAt: Date.now(), ttlMs }
CacheSetRecord(value, t, ttlMs) == [value |-> value, storedAt |-> t, ttlMs |-> ttlMs]

\* mutant: set() only adds, it never replaces a record
IdbAdd(st, key, record) == IF MapHas(st, key) THEN st ELSE MapSet(st, key, record)

\* idb-keyval set(key, record) and del(key), applied when their transaction completes
IdbSet(st, key, record) == MapSet(st, key, record)

\* mutant: a delete that clears the store
IdbDelAll(st, key) == EmptyMap

\* mutant: a delete that leaves the record in place
IdbDelNothing(st, key) == st

IdbDel(st, key) == MapDelete(st, key)

IdleCall == [pc |-> "idle", key |-> 0, handle |-> 0, own |-> FALSE,
             running |-> {}, released |-> FALSE, res |-> <<>>]

(***************************************************************************)
(* Initial values of the parts a specification does not exercise           *)
(***************************************************************************)
StorageIdle == store = EmptyMap /\ idb = <<>> /\ now = 0 /\ ticks = 0 /\ ncalls = 0

\* two clients give every interleaving of two cache calls
Clients == {"a", "b"}

\* a client's current call.  pc, kind, key and res are the call; the other fields
\* record what was the case when its transactions completed:
\*   arg          cacheSet: the arguments <<value, Date.now() at the call, ttlMs>>
\*   promise      cacheGet: <<"value", v>> when the last completed write on the key
\*                wrote v, was not deleted since, and is no older than its TTL
\*   present      cacheGet: get() found a record
\*   noTtl        cacheGet: that record has no ttlMs
\*   sawExpired   cacheGet: that record was older than its TTL (24 h without one)
\*   left         cacheGet: a record for the key is in the store as the call returns
\*   overExpired  cacheSet: the write replaced a record that had expired
IdleCacheCall == [pc |-> "idle", kind |-> "", key |-> "", res |-> <<>>, arg |-> <<>>,
                  promise |-> <<>>, present |-> FALSE, noTtl |-> FALSE,
                  sawExpired |-> FALSE, left |-> FALSE, overExpired |-> FALSE]

CacheClientsIdle ==
    /\ ccall = [c \in Clients |-> IdleCacheCall]
    /\ expected = EmptyMap

DedupeIdle == ops = <<>> /\ dcall = [c \in Callers |-> IdleCall]

\* a client's current generateModel call.  pc, input, key, handle and res are the
\* call; the other fields record what was the case as it went along:
\*   own      the call's own operation was started (it ran createJob)
\*   seen     until the cache read: the record the store held for the key when
\*            the call was made
\*   promise  from the cache read on: <<v>> when the store held a record with
\*            value v as the call was made and the read, no later than 7 days
\*            after v was stored, found it not overwritten
\*   lost     while in progress: a cache read found a record of the key expired
\*            since the call was made
\*   overlap  the clients whose call with the same input was in progress when
\*            this call was made, each with
\*              lost  a cache read found a record of the key expired while one
\*                    of the two calls was in progress
\*              note  <<>> until that call returns, then how it went
IdleGenCall == [pc |-> "idle", input |-> <<>>, key |-> <<>>, handle |-> NoPromise,
                res |-> <<>>, own |-> FALSE, seen |-> <<>>, promise |-> <<>>,
                lost |-> FALSE, overlap |-> EmptyMap]

GenIdle ==
    /\ gcall = [c \in Clients |-> IdleGenCall]
    /\ gops = <<>>
    /\ plog = <<>>

\* a client that is in no call of a sketchfabClient function
\*   fn      the function called
\*   key     its cache key, <<>> for downloadSketchfabModel
\*   handle  the operation whose promise the call holds, NoPromise before
\*   res     <<>>, or <<"ok", value>> or <<"err", message>> once it returned
\*   own     the call started the operation it holds
\*   during  the clients whose call of the same function was in progress when
\*           this call began
\*   lost    a cache read found the record of the key expired during the call
IdleLibCall == [pc |-> "idle", fn |-> "", key |-> <<>>, handle |-> NoPromise,
                res |-> <<>>, own |-> FALSE, during |-> {}, lost |-> FALSE]

LibIdle ==
    /\ libKey = FALSE
    /\ lcall = [c \in Clients |-> IdleLibCall]
    /\ lops = <<>>

\* a client that is in no call of an evalStore function
\*   fn      "addFeedback", "addMetrics" or "load"
\*   arg     the entry an add call was given
\*   before  what the store held under the key when an add call was made
\*   f, m    load: what its two cache reads returned
IdleEvalCall == [pc |-> "idle", fn |-> "", arg |-> 0, before |-> <<>>,
                 f |-> <<>>, m |-> <<>>]

\* create(): feedbacks: [], metrics: []
EvalIdle ==
    /\ feedbacks = <<>>
    /\ metrics = <<>>
    /\ ecall = [c \in Clients |-> IdleEvalCall]

(***************************************************************************)
(* SpecDedupe: callers call dedupe(k, fn_c) with their own operation fn_c. *)
(* An operation is an async function: calling it returns a pending promise *)
(* that later fulfils or rejects.  The promise p that dedupe registers and *)
(* returns is fn().finally(...): it settles after the cleanup callback     *)
(* has run, with the outcome of fn().  Each of these is a separate         *)
(* microtask, so other callers may call dedupe in between.                 *)
(***************************************************************************)
\* operations of key k whose fn() promise has not settled
RunningOps(k) == {o \in 1..Len(ops) : ops[o].key = k /\ ops[o].fn = "running"}

\* no promise registered for k is still pending
KeyReleased(k) == \A o \in 1..Len(ops) : ops[o].key = k => ops[o].p # "pending"

InitDedupe ==
    /\ inflight = EmptyMap
    /\ ops = <<>>
    /\ dcall = [c \in Callers |-> IdleCall]
    /\ StorageIdle
    /\ CacheClientsIdle
    /\ apiKey = FALSE
    /\ GenIdle
    /\ LibIdle
    /\ EvalIdle

\* caller c, not in a call (the result of its last call stays on view), calls
\* dedupe(k, fn_c)
Dedupe(c, k) ==
    /\ dcall[c].pc \in {"idle", "done"}
    /\ LET existing == DedupeExisting(inflight, k)
           hist == [running |-> RunningOps(k), released |-> KeyReleased(k)]
       IN IF existing # NoPromise
          THEN /\ dcall' = [dcall EXCEPT ![c] =
                      [pc |-> "waiting", key |-> k, handle |-> existing, own |-> FALSE,
                       running |-> hist.running, released |-> hist.released,
                       res |-> <<>>]]
               /\ UNCHANGED <<inflight, ops>>
          ELSE /\ Len(ops) < MaxOps
               /\ LET p == Len(ops) + 1
                  IN /\ ops' = Append(ops, [key |-> k, fn |-> "running",
                                            val |-> 0, cleaned |-> FALSE, p |-> "pending"])
                     /\ inflight' = DedupeRegister(inflight, k, p)
                     /\ dcall' = [dcall EXCEPT ![c] =
                            [pc |-> "waiting", key |-> k, handle |-> p, own |-> TRUE,
                             running |-> hist.running, released |-> hist.released,
                             res |-> <<>>]]

\* the promise returned by fn() settles: fulfilled with a value or rejected with an
\* error; either is this invocation's own object, named here by the invocation
OpSettle(o, outcome) ==
    /\ o \in 1..Len(ops)
    /\ ops[o].fn = "running"
    /\ ops' = [ops EXCEPT ![o].fn = outcome, ![o].val = o]
    /\ UNCHANGED <<inflight, dcall>>

\* the .finally() callback of operation o runs
OpCleanup(o) ==
    /\ o \in 1..Len(ops)
    /\ ops[o].fn # "running"
    /\ ~ops[o].cleaned
    /\ inflight' = FinallyCleanup(inflight, ops[o].key, ops[o].fn)
    /\ ops' = [ops EXCEPT ![o].cleaned = TRUE]
    /\ UNCHANGED dcall

\* the registered promise p settles with the outcome of fn()
PromiseSettle(o) ==
    /\ o \in 1..Len(ops)
    /\ ops[o].cleaned
    /\ ops[o].p = "pending"
    /\ ops' = [ops EXCEPT ![o].p = FinallyOutcome(ops[o].fn)]
    /\ UNCHANGED <<inflight, dcall>>

\* caller c's await on the promise it was handed resumes
Receive(c) ==
    /\ dcall[c].pc = "waiting"
    /\ ops[dcall[c].handle].p # "pending"
    /\ dcall' = [dcall EXCEPT ![c].pc = "done",
                              ![c].res = <<ops[dcall[c].handle].p, ops[dcall[c].handle].val>>]
    /\ UNCHANGED <<inflight, ops>>

DedupeFrame == UNCHANGED <<storageVars, cacheVars, genVars, libVars, evalVars>>

NextDedupe ==
    \/ \E c \in Callers, k \in DKeys : Dedupe(c, k) /\ DedupeFrame
    \/ \E o \in 1..MaxOps, outcome \in {"ok", "err"} : OpSettle(o, outcome) /\ DedupeFrame
    \/ \E o \in 1..MaxOps : OpCleanup(o) /\ DedupeFrame
    \/ \E o \in 1..MaxOps : PromiseSettle(o) /\ DedupeFrame
    \/ \E c \in Callers : Receive(c) /\ DedupeFrame

SpecDedupe == InitDedupe /\ [][NextDedupe]_vars

\* promise reactions are microtasks: the event loop runs every one that is queued
FairSpecDedupe ==
    /\ SpecDedupe
    /\ \A o \in 1..MaxOps : WF_vars(OpCleanup(o) /\ DedupeFrame)
    /\ \A o \in 1..MaxOps : WF_vars(PromiseSettle(o) /\ DedupeFrame)
    /\ \A c \in Callers : WF_vars(Receive(c) /\ DedupeFrame)

(***************************************************************************)
(* Claims about dedupe                                                     *)
(***************************************************************************)
ActiveCalls == {c \in Callers : dcall[c].pc # "idle"}

\* C1: a dedupe(k, op) call made while an earlier operation for k has not settled
\* does not invoke its own op: it is handed the promise of the one running
\* operation, and every caller handed that promise receives the same settlement.
C1_DedupeCollapsing ==
    \A c \in ActiveCalls :
        dcall[c].running # {} =>
            /\ ~dcall[c].own
            /\ dcall[c].running = {dcall[c].handle}
            /\ \A d \in ActiveCalls :
                  (dcall[d].handle = dcall[c].handle /\ dcall[c].pc = "done"
                      /\ dcall[d].pc = "done") => dcall[d].res = dcall[c].res

C1_Witness ==
    \E c, d \in Callers :
        /\ c # d
        /\ dcall[c].pc = "done" /\ dcall[d].pc = "done"
        /\ dcall[d].own /\ dcall[c].running = {dcall[d].handle}
        /\ dcall[c].res = <<"ok", dcall[d].handle>>
        /\ dcall[d].res = dcall[c].res

\* C2: for every key at most one operation launched through dedupe has been
\* started and has not yet settled.
C2_OneInflightPerKey == \A k \in DKeys : Cardinality(RunningOps(k)) <= 1

C2_Witness ==
    /\ Len(ops) >= 2
    /\ ops[1].key = ops[2].key
    /\ ops[1].fn = "err" /\ ops[2].fn = "running"
    /\ \E c \in Callers : dcall[c].pc = "waiting" /\ dcall[c].handle = 2 /\ ~dcall[c].own

\* C4: once the promise registered for k has settled, fulfilled or rejected, the
\* registry no longer holds it, and a dedupe(k, op2) call made when no promise
\* registered for k is pending invokes op2.
C4_KeyReleased ==
    /\ \A o \in 1..Len(ops) :
          ops[o].p # "pending" => MapGet(inflight, ops[o].key, NoPromise) # o
    /\ \A c \in ActiveCalls : dcall[c].released => dcall[c].own

C4_Witness ==
    \E c \in Callers :
        /\ dcall[c].pc # "idle" /\ dcall[c].released /\ dcall[c].own
        /\ dcall[c].handle = 2
        /\ ops[1].key = dcall[c].key /\ ops[1].p = "err"

\* C5 (safety part): a caller handed the promise of an operation that failed
\* observes that failure and nothing else.
C5_SameFailure ==
    \A c \in Callers :
        (dcall[c].pc = "done" /\ ops[dcall[c].handle].fn = "err") =>
            dcall[c].res = <<"err", ops[dcall[c].handle].val>>

\* C5: when the operation started for k fails, every caller that called
\* dedupe(k, ...) while it was pending observes that same failure, and none of
\* them waits forever.
C5_FailureReachesAllCallers ==
    /\ []C5_SameFailure
    /\ \A c \in Callers :
          (dcall[c].pc = "waiting" /\ ops[dcall[c].handle].fn = "err")
              ~> (dcall[c].pc = "done" /\ dcall[c].res[1] = "err")

C5_Witness ==
    \E c, d \in Callers :
        /\ c # d
        /\ dcall[c].pc = "done" /\ dcall[d].pc = "done"
        /\ dcall[c].handle = dcall[d].handle
        /\ dcall[c].res[1] = "err" /\ dcall[d].res = dcall[c].res

(***************************************************************************)
(* SpecCache: clients call cacheGet(k) and cacheSet(k, v, ttl) while the   *)
(* clock advances.  Every idb-keyval call creates one IndexedDB            *)
(* transaction on the one object store; IndexedDB completes them in the    *)
(* order they were created, and the awaiting code resumes in the task that *)
(* delivers the completion.                                                *)
(***************************************************************************)
HOUR_MS == 3600000

CKeys == {"k1", "k2"}
TtlInputs == {TtlUndefined, 0, HOUR_MS}
ClockSteps == {1, DEFAULT_TTL_MS}
MaxTicks == 2
MaxCalls == 3

\* the oldest transaction: the next to complete
Oldest == idb[1]

\* the age beyond which a record counts as stale: its ttlMs, 24 hours without one
ClaimedTtl(record) ==
    IF record.ttlMs = TtlUndefined THEN 24 * 60 * 60 * 1000 ELSE record.ttlMs

InitCache ==
    /\ inflight = EmptyMap
    /\ StorageIdle
    /\ CacheClientsIdle
    /\ DedupeIdle
    /\ apiKey = FALSE
    /\ GenIdle
    /\ LibIdle
    /\ EvalIdle

\* Date.now() moves on
Tick(d) ==
    /\ ticks < MaxTicks
    /\ now' = now + d
    /\ ticks' = ticks + 1
    /\ UNCHANGED <<store, idb, ncalls>>

\* a client is between calls (the result of its last call stays on view)
Free(c) == ccall[c].pc \in {"idle", "done"}

\* client c calls cacheSet(k, v, ttl): the record is built and set() is issued.
\* Every call writes a value of its own, named by the ordinal of the call.
CacheSetCall(c, k, ttl) ==
    /\ Free(c)
    /\ ncalls < MaxCalls
    /\ ncalls' = ncalls + 1
    /\ idb' = Append(idb, [op |-> "set", who |-> c, key |-> k,
                           record |-> CacheSetRecord(ncalls + 1, now, ttl)])
    /\ ccall' = [ccall EXCEPT ![c] = [IdleCacheCall EXCEPT !.pc = "set", !.kind = "set",
                       !.key = k, !.arg = <<ncalls + 1, now, ttl>>]]
    /\ UNCHANGED <<store, now, ticks, expected>>

\* set() completes: the write is applied and cacheSet returns
CacheSetDone(c) ==
    /\ idb # <<>> /\ Oldest.op = "set" /\ Oldest.who = c
    /\ ccall[c].pc = "set"
    /\ store' = IdbSet(store, Oldest.key, Oldest.record)
    /\ idb' = Tail(idb)
    /\ expected' = MapSet(expected, Oldest.key,
                          [value |-> ccall[c].arg[1], storedAt |-> ccall[c].arg[2],
                           ttlMs |-> ccall[c].arg[3]])
    /\ ccall' = [ccall EXCEPT ![c].pc = "done",
                              ![c].overExpired = MapHas(store, Oldest.key)
                                  /\ now - store[Oldest.key].storedAt
                                       > ClaimedTtl(store[Oldest.key])]
    /\ UNCHANGED <<now, ticks, ncalls>>

\* client c calls cacheGet(k): get() is issued
CacheGetCall(c, k) ==
    /\ Free(c)
    /\ ncalls < MaxCalls
    /\ ncalls' = ncalls + 1
    /\ idb' = Append(idb, [op |-> "get", who |-> c, key |-> k, record |-> <<>>])
    /\ ccall' = [ccall EXCEPT ![c] = [IdleCacheCall EXCEPT !.pc = "get", !.kind = "get",
                       !.key = k]]
    /\ UNCHANGED <<store, now, ticks, expected>>

\* get() completes and cacheGet runs on: it returns, or issues del()
CacheGetRead(c) ==
    /\ idb # <<>> /\ Oldest.op = "get" /\ Oldest.who = c
    /\ ccall[c].pc = "get"
    /\ LET k == Oldest.key
           outcome == CacheGetOutcome(store, k, now)
       IN /\ idb' = IF outcome = "evict"
                    THEN Append(Tail(idb), [op |-> "del", who |-> c, key |-> k, record |-> <<>>])
                    ELSE Tail(idb)
          /\ ccall' = [ccall EXCEPT
                 ![c].pc = IF outcome = "evict" THEN "del" ELSE "done",
                 ![c].res = IF outcome = "hit" THEN <<"value", store[k].value>>
                            ELSE <<"undefined">>,
                 ![c].promise = IF MapHas(expected, k)
                                   /\ now - expected[k].storedAt <= ClaimedTtl(expected[k])
                                THEN <<"value", expected[k].value>>
                                ELSE <<>>,
                 ![c].present = MapHas(store, k),
                 ![c].noTtl = MapHas(store, k) /\ store[k].ttlMs = TtlUndefined,
                 ![c].sawExpired = MapHas(store, k)
                                   /\ now - store[k].storedAt > ClaimedTtl(store[k]),
                 ![c].left = MapHas(store, k)]
    /\ UNCHANGED <<store, now, ticks, ncalls, expected>>

\* del() completes: the record is removed and cacheGet returns undefined
CacheGetEvicted(c) ==
    /\ idb # <<>> /\ Oldest.op = "del" /\ Oldest.who = c
    /\ ccall[c].pc = "del"
    /\ store' = IdbDel(store, Oldest.key)
    /\ idb' = Tail(idb)
    /\ expected' = MapDelete(expected, Oldest.key)
    /\ ccall' = [ccall EXCEPT ![c].pc = "done", ![c].left = MapHas(store', Oldest.key)]
    /\ UNCHANGED <<now, ticks, ncalls>>

CacheFrame == UNCHANGED <<inflight, dedupeVars, genVars, libVars, evalVars>>

NextCache ==
    \/ \E d \in ClockSteps : Tick(d) /\ UNCHANGED cacheVars /\ CacheFrame
    \/ \E c \in Clients, k \in CKeys, ttl \in TtlInputs :
          CacheSetCall(c, k, ttl) /\ CacheFrame
    \/ \E c \in Clients : CacheSetDone(c) /\ CacheFrame
    \/ \E c \in Clients, k \in CKeys : CacheGetCall(c, k) /\ CacheFrame
    \/ \E c \in Clients : CacheGetRead(c) /\ CacheFrame
    \/ \E c \in Clients : CacheGetEvicted(c) /\ CacheFrame

SpecCache == InitCache /\ [][NextCache]_vars

(***************************************************************************)
(* Claims about the cache                                                  *)
(***************************************************************************)
Gets == {c \in Clients : ccall[c].kind = "get" /\ ccall[c].pc \in {"del", "done"}}

\* C7: after cacheSet(k, v, ttl) has completed, a cacheGet(k) whose read finds
\* that write not overwritten or deleted, at an age now - storedAt <= ttl (the
\* age ttl itself included), returns v.
C7_ReadAfterWrite ==
    \A c \in Gets :
        ccall[c].promise # <<>> => ccall[c].pc = "done" /\ ccall[c].res = ccall[c].promise

C7_Witness ==
    \E c \in Gets :
        /\ ccall[c].pc = "done" /\ ccall[c].promise # <<>>
        /\ ccall[c].res = ccall[c].promise
        /\ MapHas(store, ccall[c].key)
        /\ now - store[ccall[c].key].storedAt = 24 * 60 * 60 * 1000
        /\ ccall[c].noTtl

\* C8 (state part): a cacheGet that reads a record older than its TTL returns
\* undefined, and no record for the key is in the store as it returns.
C8_StaleReadEvicts ==
    \A c \in Gets :
        (ccall[c].sawExpired /\ ccall[c].pc = "done") =>
            ccall[c].res = <<"undefined">> /\ ~ccall[c].left

\* C8 (step part): a record leaves the store only in the step that completes
\* the del() of a cacheGet that had read a stale record of that key.
C8_OnlyReadsEvict ==
    \A k \in CKeys :
        (MapHas(store, k) /\ ~MapHas(store', k)) =>
            \E c \in Clients :
                /\ ccall[c].pc = "del" /\ ccall[c].key = k /\ ccall[c].sawExpired
                /\ ccall'[c].pc = "done"

\* C8: cache expiry with lazy eviction: a cacheGet(k) executed when
\* now - storedAt > ttl reports absent and removes the record, and nothing else
\* ever removes a record.
C8_LazyEviction == []C8_StaleReadEvicts /\ [][C8_OnlyReadsEvict]_vars

C8_Witness ==
    \E c \in Gets :
        /\ ccall[c].pc = "done" /\ ccall[c].sawExpired
        /\ ccall[c].res = <<"undefined">>
        /\ ~MapHas(store, ccall[c].key)

\* C9: a record written without ttlMs is stored without one and is served
\* exactly while its age is at most 24 hours; a record written with a ttlMs,
\* 0 included, is served exactly while its age is at most that ttlMs.
C9_DefaultTtl ==
    /\ \A k \in DOMAIN expected :
          MapHas(store, k) /\ store[k].ttlMs = expected[k].ttlMs
    /\ \A c \in Gets :
          ccall[c].present => (ccall[c].res[1] = "value" <=> ~ccall[c].sawExpired)

C9_Witness ==
    \E c, d \in Gets :
        /\ ccall[c].noTtl /\ ccall[c].res[1] = "value"
        /\ ccall[d].noTtl /\ ccall[d].sawExpired /\ ccall[d].key = ccall[c].key
        /\ now = 24 * 60 * 60 * 1000 + 1

\* C10: the store holds for every key exactly the record of the last completed
\* cacheSet on it (its value, its ttlMs, storedAt = the time of that call), or
\* nothing when a delete came after it: an earlier record leaves no trace.
C10_Overwrite ==
    /\ DOMAIN store = DOMAIN expected
    /\ \A k \in DOMAIN store : store[k] = expected[k]

C10_Witness ==
    \E c \in Clients :
        /\ ccall[c].kind = "set" /\ ccall[c].pc = "done" /\ ccall[c].overExpired
        /\ store[ccall[c].key] = [value |-> ccall[c].arg[1], storedAt |-> ccall[c].arg[2],
                                  ttlMs |-> ccall[c].arg[3]]
        /\ ccall[c].arg[2] > 0

(***************************************************************************)
(* SpecGen: clients call generateModel(input).                             *)
(*   keySource = JSON.stringify(input); inputHash = await hashString(...)  *)
(*   cached = await cacheGet(cacheKey); if (cached) return cached;         *)
(*   return dedupe(cacheKey, async () => {                                 *)
(*     createJob; poll getJob until succeeded/failed or 2 minutes passed,  *)
(*     1.5 s apart; build the result; await cacheSet(..., 7 days);         *)
(*     return result })                                                    *)
(* A step of the model is one task of the event loop with the microtasks   *)
(* it queues: the completion of a digest, of an IndexedDB transaction, of  *)
(* a fetch or of a timer, and the code that runs on from there up to its   *)
(* next such wait.                                                         *)
(***************************************************************************)
WEEK_MS == 604800000
POLL_CEILING_MS == 120000
POLL_DELAY_MS == 1500
MOCK_DELAY_MS == 800

\* a field a response or a result does not have
Undefined == "undefined"

\* GenerationInput objects, as the fields in the order they were put in
Inputs == { << <<"promptText", "a cat">>, <<"style", "toon">> >>,
            << <<"style", "toon">>, <<"promptText", "a cat">> >> }

\* JSON.stringify(input): the fields and their values in insertion order
RECURSIVE JsonStringify(_)
JsonStringify(input) ==
    IF input = <<>> THEN <<>>
    ELSE <<input[1][1], ":", input[1][2]>> \o JsonStringify(Tail(input))

\* hashString: a digest of the text, taken to be free of collisions
HashString(text) == <<"sha256">> \o text

\* `model:${inputHash}`
CacheKey(input) == <<"model:">> \o HashString(JsonStringify(input))

\* the suffixes Math.random().toString(36).slice(2) may produce
MockRandom == {"x1", "x2"}

\* what the provider may answer to a status read
StatusResponses ==
    { [status |-> "processing", model_url |-> Undefined,
       preview_image |-> Undefined, error |-> Undefined],
      [status |-> "succeeded", model_url |-> "https://provider/model.glb",
       preview_image |-> "https://provider/preview.png", error |-> Undefined],
      [status |-> "failed", model_url |-> Undefined,
       preview_image |-> Undefined, error |-> "provider error"] }

\* getJob's answer for a mock task
MockResponse ==
    [status |-> "succeeded", model_url |-> "https://example.com/mock.glb",
     preview_image |-> "https://placehold.co/400x300", error |-> Undefined]

\* the clock moves on by the delay between two polls, or by more than the 2
\* minutes of polling and the 7 days a result is kept
GenClockSteps == {POLL_DELAY_MS, WEEK_MS + 1}

\* how many generateModel calls the clients make
MaxGenCalls == 2

\* mutant: no task id is taken for a made-up one
IsMockNever(taskId) == FALSE

\* taskId.startsWith('mock-')
IsMock(taskId) == taskId[1] = "mock-"

\* the operation as dedupe starts it
NewOp(input, key) ==
    [pc |-> "create", input |-> input, key |-> key, taskId |-> <<>>,
     status |-> Undefined, modelUrl |-> Undefined, preview |-> Undefined,
     error |-> Undefined, start |-> 0, wake |-> 0, result |-> <<>>]

\* an operation that has returned or thrown: nothing of it is referred to again
Settled(outcome) == [NewOp(<<>>, <<>>) EXCEPT !.pc = outcome]

\* mutant: the loop has no ceiling
ContinuePollingNoCeiling(op, t) == op.status # "succeeded" /\ op.status # "failed"

\* the while condition
ContinuePolling(op, t) ==
    /\ op.status # "succeeded"
    /\ op.status # "failed"
    /\ t - op.start < POLL_CEILING_MS

\* mutant: the result carries the status last read, whatever it is
BuildResultLastStatus(op, key, t) ==
    [id |-> op.taskId, inputHash |-> HashString(JsonStringify(op.input)),
     createdAt |-> t, status |-> op.status,
     glbUrl |-> op.modelUrl, previewImageUrl |-> op.preview,
     provider |-> IF key THEN "meshy" ELSE "mock",
     errorMessage |-> op.error]

\* the GeneratedModel built after the loop
BuildResult(op, key, t) ==
    [id |-> op.taskId, inputHash |-> HashString(JsonStringify(op.input)),
     createdAt |-> t,
     status |-> IF op.status = "succeeded" THEN "succeeded" ELSE "failed",
     glbUrl |-> op.modelUrl, previewImageUrl |-> op.preview,
     provider |-> IF key THEN "meshy" ELSE "mock",
     errorMessage |-> op.error]

\* the operation at the head of the loop at time t: it reads the status again (a
\* fetch, or the mock's 800 ms timer), or leaves the loop and builds the result
AtLoopHead(op, key, t) ==
    IF ContinuePolling(op, t)
    THEN IF IsMock(op.taskId)
         THEN [op EXCEPT !.pc = "mock", !.wake = t + MOCK_DELAY_MS]
         ELSE [op EXCEPT !.pc = "poll"]
    ELSE [op EXCEPT !.pc = "set", !.result = BuildResult(op, key, t)]

\* mutant: a preview image once reported is kept
AfterStatusKeepsPreview(op, j, key, t) ==
    LET polled == [op EXCEPT !.status = j.status, !.modelUrl = j.model_url,
                             !.preview = IF @ # Undefined THEN @ ELSE j.preview_image,
                             !.error = j.error]
    IN IF j.status = "queued" \/ j.status = "processing"
       THEN [polled EXCEPT !.pc = "sleep", !.wake = t + POLL_DELAY_MS]
       ELSE AtLoopHead(polled, key, t)

\* mutant: the delay between two polls is waited after every answer
AfterStatusAlwaysSleeps(op, j, key, t) ==
    [op EXCEPT !.status = j.status, !.modelUrl = j.model_url,
               !.preview = j.preview_image, !.error = j.error,
               !.pc = "sleep", !.wake = t + POLL_DELAY_MS]

\* the operation after the status response j arrived at time t
AfterStatus(op, j, key, t) ==
    LET polled == [op EXCEPT !.status = j.status, !.modelUrl = j.model_url,
                             !.preview = j.preview_image, !.error = j.error]
    IN IF j.status = "queued" \/ j.status = "processing"
       THEN [polled EXCEPT !.pc = "sleep", !.wake = t + POLL_DELAY_MS]
       ELSE AtLoopHead(polled, key, t)

\* mutant: the result is stored under the task id, not under the request's key
CacheSetTxnByTask(o, op, t) ==
    [op |-> "set", who |-> o, key |-> <<"model:">> \o op.taskId,
     record |-> CacheSetRecord(op.result, t, WEEK_MS)]

\* cacheSet(cacheKey, result, 1000 * 60 * 60 * 24 * 7): the transaction it creates
CacheSetTxn(o, op, t) ==
    [op |-> "set", who |-> o, key |-> op.key,
     record |-> CacheSetRecord(op.result, t, WEEK_MS)]

\* the transactions operation o, having run on to `op` at time t, has created
IssuedBy(o, op, t) == IF op.pc = "set" THEN <<CacheSetTxn(o, op, t)>> ELSE <<>>

\* mutant: the lookup result is ignored
ReturnsCachedNever(cached) == FALSE

\* `if (cached) return cached`: cached is <<value>>, or <<>> for undefined
ReturnsCached(cached) == cached # <<>>

\* how a call went, for the calls that were made while it was in progress
Note(call) == [res |-> call.res, own |-> call.own]

InProgress(call) == call.pc \notin {"idle", "done"}

\* the calls g, with every call that has returned noted by those made during it
Noted(g) ==
    [c \in Clients |->
        [g[c] EXCEPT
            !.lost = @ /\ InProgress(g[c]),
            !.overlap =
               [d \in DOMAIN g[c].overlap |->
                   IF g[c].overlap[d].note = <<>> /\ g[d].pc = "done"
                   THEN [g[c].overlap[d] EXCEPT !.note = <<Note(g[d])>>]
                   ELSE g[c].overlap[d]]]]

\* the calls g, with the calls for key k told that a record of k was found expired
FoundExpired(g, k) ==
    [c \in Clients |->
        IF g[c].key # k THEN g[c]
        ELSE [g[c] EXCEPT
                 !.lost = @ \/ InProgress(g[c]),
                 !.overlap =
                    [d \in DOMAIN g[c].overlap |->
                        IF InProgress(g[c]) \/ g[c].overlap[d].note = <<>>
                        THEN [g[c].overlap[d] EXCEPT !.lost = TRUE]
                        ELSE g[c].overlap[d]]]]

\* mutant: only the caller that started the operation resumes
DeliverToOwner(o, outcome, value) ==
    Noted([c \in Clients |->
              IF gcall[c].pc = "waiting" /\ gcall[c].handle = o /\ gcall[c].own
              THEN [gcall[c] EXCEPT !.pc = "done", !.res = <<FinallyOutcome(outcome), value>>]
              ELSE gcall[c]])

\* the calls after operation o settled: every caller holding its promise resumes
Deliver(o, outcome, value) ==
    Noted([c \in Clients |->
              IF gcall[c].pc = "waiting" /\ gcall[c].handle = o
              THEN [gcall[c] EXCEPT !.pc = "done", !.res = <<FinallyOutcome(outcome), value>>]
              ELSE gcall[c]])

InitGen ==
    /\ inflight = EmptyMap
    /\ StorageIdle
    /\ CacheClientsIdle
    /\ DedupeIdle
    /\ apiKey \in BOOLEAN
    /\ GenIdle
    /\ LibIdle
    /\ EvalIdle

\* client c calls generateModel(input): the key source is built and the digest
\* is requested
GenerateModel(c, input) ==
    /\ gcall[c].pc \in {"idle", "done"}
    /\ ncalls < MaxGenCalls
    /\ ncalls' = ncalls + 1
    /\ LET key == CacheKey(input)
           during == {d \in Clients \ {c} :
                         gcall[d].pc \notin {"idle", "done"} /\ gcall[d].input = input}
       IN gcall' = Noted([gcall EXCEPT ![c] =
                     [IdleGenCall EXCEPT !.pc = "hash", !.input = input, !.key = key,
                          !.seen = IF MapHas(store, key) THEN <<store[key]>> ELSE <<>>,
                          !.overlap = [d \in during |->
                                          [lost |-> gcall[d].lost, note |-> <<>>]]]])
    /\ UNCHANGED <<inflight, store, idb, now, ticks, gops>>

\* the digest arrives: cacheGet(cacheKey) is called and issues get()
HashDone(c) ==
    /\ gcall[c].pc = "hash"
    /\ idb' = Append(idb, [op |-> "get", who |-> c, key |-> gcall[c].key, record |-> <<>>])
    /\ gcall' = [gcall EXCEPT ![c].pc = "get"]
    /\ UNCHANGED <<inflight, store, now, ticks, ncalls, gops>>

\* generateModel from the return of cacheGet on, for client c with the calls as
\* in g and the transactions as in q: the cached value is returned, or dedupe
\* is called, which hands out the registered promise or starts the operation.
\* Started, the operation calls createJob, which issues its fetch or, with no
\* API key, returns a made-up task id at once.
AfterCacheGet(c, g, q, cached) ==
    LET key == g[c].key
        existing == DedupeExisting(inflight, key)
        o == Len(gops) + 1
        fresh == NewOp(g[c].input, key)
        started == IF apiKey THEN {fresh}
                   ELSE {AtLoopHead([fresh EXCEPT !.taskId = <<"mock-", r>>,
                                         !.status = "queued", !.start = now], apiKey, now) :
                            r \in MockRandom}
    IN IF ReturnsCached(cached)
       THEN /\ gcall' = Noted([g EXCEPT ![c].pc = "done", ![c].res = <<"ok", cached[1]>>])
            /\ idb' = q
            /\ UNCHANGED <<inflight, gops>>
       ELSE IF existing # NoPromise
       THEN /\ gcall' = Noted([g EXCEPT ![c].pc = "waiting", ![c].handle = existing])
            /\ idb' = q
            /\ UNCHANGED <<inflight, gops>>
       ELSE /\ Len(gops) < MaxOps
            /\ \E op \in started :
                  /\ gops' = Append(gops, op)
                  /\ idb' = q \o IssuedBy(o, op, now)
            /\ inflight' = DedupeRegister(inflight, key, o)
            /\ gcall' = Noted([g EXCEPT ![c].pc = "waiting", ![c].handle = o,
                                        ![c].own = TRUE])

\* get() completes and cacheGet runs on: it issues del() for an expired record,
\* or returns and generateModel runs on
GenCacheRead(c) ==
    /\ idb # <<>> /\ Oldest.op = "get" /\ Oldest.who = c
    /\ gcall[c].pc = "get"
    /\ LET k == Oldest.key
           outcome == CacheGetOutcome(store, k, now)
           seen == gcall[c].seen
           found == IF MapHas(store, k) THEN <<store[k]>> ELSE <<>>
           g == [gcall EXCEPT
                    ![c].seen = <<>>,
                    ![c].promise =
                        IF /\ seen # <<>>
                           /\ now - seen[1].storedAt <= 7 * 24 * 60 * 60 * 1000
                           /\ found \in {<<>>, seen}
                        THEN <<seen[1].value>> ELSE <<>>]
       IN IF outcome = "evict"
          THEN /\ gcall' = FoundExpired([g EXCEPT ![c].pc = "del"], k)
               /\ idb' = Append(Tail(idb), [op |-> "del", who |-> c, key |-> k, record |-> <<>>])
               /\ UNCHANGED <<inflight, gops>>
          ELSE AfterCacheGet(c, g, Tail(idb),
                             IF outcome = "hit" THEN <<store[k].value>> ELSE <<>>)
    /\ UNCHANGED <<store, now, ticks, ncalls>>

\* del() completes: cacheGet returns undefined and generateModel runs on
GenCacheEvicted(c) ==
    /\ idb # <<>> /\ Oldest.op = "del" /\ Oldest.who = c
    /\ gcall[c].pc = "del"
    /\ store' = IdbDel(store, Oldest.key)
    /\ AfterCacheGet(c, gcall, Tail(idb), <<>>)
    /\ UNCHANGED <<now, ticks, ncalls>>

\* the operation's promise rejects: the registration is removed and every caller
\* holding the promise gets the error
Throw(o, message) ==
    /\ gops' = [gops EXCEPT ![o] = Settled("err")]
    /\ inflight' = FinallyCleanup(inflight, gops[o].key, "err")
    /\ gcall' = Deliver(o, "err", message)
    /\ UNCHANGED <<store, idb, now, ticks, ncalls>>

\* the response to createJob's fetch arrives: resp.ok with a task id of the
\* provider's making, one per job, and polling begins; or not ok
CreateJobResponds(o, ok) ==
    /\ o \in 1..Len(gops)
    /\ gops[o].pc = "create"
    /\ IF ok
       THEN LET op == AtLoopHead([gops[o] EXCEPT !.taskId = <<"task-", o>>,
                                      !.status = "queued", !.start = now], apiKey, now)
            IN /\ gops' = [gops EXCEPT ![o] = op]
               /\ idb' = idb \o IssuedBy(o, op, now)
               /\ UNCHANGED <<inflight, store, now, ticks, ncalls, gcall>>
       ELSE Throw(o, "Failed to create job")

\* the response to getJob's fetch arrives, resp.ok with the body j
GetJobResponds(o, j) ==
    /\ o \in 1..Len(gops)
    /\ gops[o].pc = "poll"
    /\ LET op == AfterStatus(gops[o], j, apiKey, now)
       IN /\ gops' = [gops EXCEPT ![o] = op]
          /\ idb' = idb \o IssuedBy(o, op, now)
    /\ UNCHANGED <<inflight, store, now, ticks, ncalls, gcall>>

\* the response to getJob's fetch arrives and is not ok
GetJobFails(o) ==
    /\ o \in 1..Len(gops)
    /\ gops[o].pc = "poll"
    /\ Throw(o, "Failed to get job")

\* a timer fires, when its delay has passed or later: the mock's getJob answers,
\* or the delay between two polls is over
TimerFires(o) ==
    /\ o \in 1..Len(gops)
    /\ gops[o].pc \in {"mock", "sleep"}
    /\ now >= gops[o].wake
    /\ LET op == IF gops[o].pc = "mock"
                 THEN AfterStatus(gops[o], MockResponse, apiKey, now)
                 ELSE AtLoopHead(gops[o], apiKey, now)
       IN /\ gops' = [gops EXCEPT ![o] = op]
          /\ idb' = idb \o IssuedBy(o, op, now)
    /\ UNCHANGED <<inflight, store, now, ticks, ncalls, gcall>>

\* set() completes: cacheSet returns, the operation returns its result, the
\* registration is removed and every caller holding the promise gets the result
GenCacheSetDone(o) ==
    /\ idb # <<>> /\ Oldest.op = "set" /\ Oldest.who = o
    /\ o \in 1..Len(gops)
    /\ gops[o].pc = "set"
    /\ store' = IdbSet(store, Oldest.key, Oldest.record)
    /\ idb' = Tail(idb)
    /\ gops' = [gops EXCEPT ![o] = Settled("ok")]
    /\ inflight' = FinallyCleanup(inflight, gops[o].key, "ok")
    /\ gcall' = Deliver(o, "ok", gops[o].result)
    /\ UNCHANGED <<now, ticks, ncalls>>

GenFrame == UNCHANGED <<dedupeVars, cacheVars, libVars, evalVars, apiKey, plog>>

NextGen ==
    \/ \E d \in GenClockSteps : Tick(d) /\ UNCHANGED <<inflight, gcall, gops>> /\ GenFrame
    \/ \E c \in Clients, input \in Inputs : GenerateModel(c, input) /\ GenFrame
    \/ \E c \in Clients : HashDone(c) /\ GenFrame
    \/ \E c \in Clients : GenCacheRead(c) /\ GenFrame
    \/ \E c \in Clients : GenCacheEvicted(c) /\ GenFrame
    \/ \E o \in 1..MaxOps, ok \in BOOLEAN : CreateJobResponds(o, ok) /\ GenFrame
    \/ \E o \in 1..MaxOps, j \in StatusResponses : GetJobResponds(o, j) /\ GenFrame
    \/ \E o \in 1..MaxOps : GetJobFails(o) /\ GenFrame
    \/ \E o \in 1..MaxOps : TimerFires(o) /\ GenFrame
    \/ \E o \in 1..MaxOps : GenCacheSetDone(o) /\ GenFrame

SpecGen == InitGen /\ [][NextGen]_vars

(***************************************************************************)
(* SpecPoll: one operation of generateModel followed through its polling,  *)
(* with one or two callers of the same request.  The clock moves to the    *)
(* next timer that is due, so the loop runs its full 2 minutes, or jumps   *)
(* 2 minutes ahead; the provider answers every request, each status read   *)
(* with any of PollResponses.  plog keeps, per operation, what the status  *)
(* reads have answered so far.                                             *)
(***************************************************************************)
PollInput == << <<"promptText", "a cat">>, <<"style", "toon">> >>

\* what the provider may answer to a status read, in full
PollResponses ==
    StatusResponses \cup
    { [status |-> "queued", model_url |-> Undefined,
       preview_image |-> Undefined, error |-> Undefined],
      [status |-> "processing", model_url |-> Undefined,
       preview_image |-> "https://provider/draft.png", error |-> "provider warning"] }

\* the status sequence of a job that converges
Converging == <<"queued", "processing", "succeeded">>

\* the log of an operation that has read no status yet
\*   polls       how many status reads were answered
\*   seq         the statuses answered, in order, as long as they follow Converging
\*   last        <<j>> for the last answer j
\*   lastError   the last error any answer carried
\*   pending     every answer so far said queued or processing
\*   terminalAt  Date.now() when an answer said succeeded or failed, -1 before
NewLog == [polls |-> 0, seq |-> <<>>, last |-> <<>>, lastError |-> Undefined,
           pending |-> TRUE, terminalAt |-> -1]

\* the log after the answer j arrived at time t
Logged(log, j, t) ==
    [polls |-> log.polls + 1,
     seq |-> IF /\ Len(log.seq) = log.polls /\ log.polls < Len(Converging)
                /\ j.status = Converging[log.polls + 1]
             THEN Append(log.seq, j.status) ELSE log.seq,
     last |-> <<j>>,
     lastError |-> IF j.error # Undefined THEN j.error ELSE log.lastError,
     pending |-> log.pending /\ j.status \in {"queued", "processing"},
     terminalAt |-> IF j.status \in {"succeeded", "failed"} /\ log.terminalAt < 0
                    THEN t ELSE log.terminalAt]

\* plog gets an entry for every operation started in this step
LogStarted == plog' = IF Len(gops') > Len(gops) THEN Append(plog, NewLog) ELSE plog

\* time passes until the timer of operation o is due
TimerDue(o) ==
    /\ o \in 1..Len(gops)
    /\ gops[o].pc \in {"mock", "sleep"}
    /\ now < gops[o].wake
    /\ now' = gops[o].wake
    /\ UNCHANGED <<inflight, store, idb, ticks, ncalls, gcall, gops>>

\* an answer that is slow to arrive, or a timer that fires late: the whole 2
\* minutes pass while operation o, still within its ceiling, awaits one of them
Late(o) ==
    /\ o \in 1..Len(gops)
    /\ gops[o].pc \in {"poll", "mock", "sleep"}
    /\ now - gops[o].start < POLL_CEILING_MS
    /\ now' = now + POLL_CEILING_MS
    /\ UNCHANGED <<inflight, store, idb, ticks, ncalls, gcall, gops>>

PollFrame == UNCHANGED <<dedupeVars, cacheVars, libVars, evalVars, apiKey>>

NextPoll ==
    \/ \E o \in 1..MaxOps : TimerDue(o) /\ UNCHANGED plog /\ PollFrame
    \/ \E o \in 1..MaxOps : Late(o) /\ UNCHANGED plog /\ PollFrame
    \/ \E c \in Clients :
          gops = <<>> /\ GenerateModel(c, PollInput) /\ UNCHANGED plog /\ PollFrame
    \/ \E c \in Clients : HashDone(c) /\ UNCHANGED plog /\ PollFrame
    \/ \E c \in Clients : GenCacheRead(c) /\ LogStarted /\ PollFrame
    \/ \E o \in 1..MaxOps : CreateJobResponds(o, TRUE) /\ UNCHANGED plog /\ PollFrame
    \/ \E o \in 1..MaxOps, j \in PollResponses :
          /\ GetJobResponds(o, j)
          /\ plog' = [plog EXCEPT ![o] = Logged(@, j, now)]
          /\ PollFrame
    \/ \E o \in 1..MaxOps :
          /\ TimerFires(o)
          /\ plog' = IF gops[o].pc = "mock"
                     THEN [plog EXCEPT ![o] = Logged(@, MockResponse, now)]
                     ELSE plog
          /\ PollFrame
    \/ \E o \in 1..MaxOps : GenCacheSetDone(o) /\ UNCHANGED plog /\ PollFrame

SpecPoll == InitGen /\ [][NextPoll]_vars

\* the steps the event loop takes by itself: a digest, a transaction completing,
\* an answer of the provider, a timer coming due and firing
PollProgress ==
    \/ \E o \in 1..MaxOps : TimerDue(o) /\ UNCHANGED plog /\ PollFrame
    \/ \E c \in Clients : HashDone(c) /\ UNCHANGED plog /\ PollFrame
    \/ \E c \in Clients : GenCacheRead(c) /\ LogStarted /\ PollFrame
    \/ \E o \in 1..MaxOps : CreateJobResponds(o, TRUE) /\ UNCHANGED plog /\ PollFrame
    \/ \E o \in 1..MaxOps, j \in PollResponses :
          /\ GetJobResponds(o, j)
          /\ plog' = [plog EXCEPT ![o] = Logged(@, j, now)]
          /\ PollFrame
    \/ \E o \in 1..MaxOps :
          /\ TimerFires(o)
          /\ plog' = IF gops[o].pc = "mock"
                     THEN [plog EXCEPT ![o] = Logged(@, MockResponse, now)]
                     ELSE plog
          /\ PollFrame
    \/ \E o \in 1..MaxOps : GenCacheSetDone(o) /\ UNCHANGED plog /\ PollFrame

\* SpecPoll with an event loop that does not stop while it has something to do
FairSpecPoll == SpecPoll /\ WF_vars(PollProgress)

(***************************************************************************)
(* SpecUnknown: SpecPoll with a provider that may also answer a status the *)
(* client does not know.  After such an answer the loop runs on without a  *)
(* delay, so the number of answers is bounded here and the ceiling is      *)
(* reached through Late.                                                   *)
(***************************************************************************)
MaxPolls == 3

AnyResponses ==
    PollResponses \cup
    { [status |-> "canceled", model_url |-> Undefined,
       preview_image |-> Undefined, error |-> Undefined] }

NextUnknown ==
    \/ \E o \in 1..MaxOps : TimerDue(o) /\ UNCHANGED plog /\ PollFrame
    \/ \E o \in 1..MaxOps : Late(o) /\ UNCHANGED plog /\ PollFrame
    \/ \E c \in Clients :
          gops = <<>> /\ GenerateModel(c, PollInput) /\ UNCHANGED plog /\ PollFrame
    \/ \E c \in Clients : HashDone(c) /\ UNCHANGED plog /\ PollFrame
    \/ \E c \in Clients : GenCacheRead(c) /\ LogStarted /\ PollFrame
    \/ \E o \in 1..MaxOps : CreateJobResponds(o, TRUE) /\ UNCHANGED plog /\ PollFrame
    \/ \E o \in 1..MaxOps, j \in AnyResponses :
          /\ o \in 1..Len(plog) /\ plog[o].polls < MaxPolls
          /\ GetJobResponds(o, j)
          /\ plog' = [plog EXCEPT ![o] = Logged(@, j, now)]
          /\ PollFrame
    \/ \E o \in 1..MaxOps :
          /\ TimerFires(o)
          /\ plog' = IF gops[o].pc = "mock"
                     THEN [plog EXCEPT ![o] = Logged(@, MockResponse, now)]
                     ELSE plog
          /\ PollFrame
    \/ \E o \in 1..MaxOps : GenCacheSetDone(o) /\ UNCHANGED plog /\ PollFrame

SpecUnknown == InitGen /\ [][NextUnknown]_vars

(***************************************************************************)
(* SpecMock: generateModel with no API key.  The clock moves to the next   *)
(* timer that is due, or on by more than the 7 days a record lives.        *)
(***************************************************************************)
InitMock == InitGen /\ ~apiKey

NextMock ==
    \/ Tick(WEEK_MS + 1) /\ UNCHANGED <<inflight, gcall, gops>> /\ GenFrame
    \/ \E o \in 1..MaxOps : TimerDue(o) /\ GenFrame
    \/ \E c \in Clients, input \in Inputs : GenerateModel(c, input) /\ GenFrame
    \/ \E c \in Clients : HashDone(c) /\ GenFrame
    \/ \E c \in Clients : GenCacheRead(c) /\ GenFrame
    \/ \E c \in Clients : GenCacheEvicted(c) /\ GenFrame
    \/ \E o \in 1..MaxOps : TimerFires(o) /\ GenFrame
    \/ \E o \in 1..MaxOps : GenCacheSetDone(o) /\ GenFrame

SpecMock == InitMock /\ [][NextMock]_vars

(***************************************************************************)
(* SpecLib: the model-library functions of sketchfabClient.ts.  The four   *)
(* reads are one pattern, cacheGet, then dedupe around fetch and cacheSet, *)
(* with a key and a lifetime of their own; downloadSketchfabModel is a     *)
(* bare fetch.  They share the cache and the registry with generateModel.  *)
(* Every client makes one call, of any function, with the arguments below. *)
(***************************************************************************)
Accessors ==
    {"searchSketchfabModels", "getSketchfabModel", "getPopularSketchfabModels",
     "getSketchfabCategories"}

SearchRequest == << <<"query", "car">> >>
ModelUid == "demo-car-123"

\* the cache key each read builds from its arguments
LibKey(fn) ==
    CASE fn = "searchSketchfabModels" ->
             <<"sketchfab:search:">> \o HashString(JsonStringify(SearchRequest))
      [] fn = "getSketchfabModel" -> <<"sketchfab:model:", ModelUid>>
      [] fn = "getPopularSketchfabModels" -> <<"sketchfab:popular:", "all", ":", "20">>
      [] fn = "getSketchfabCategories" -> <<"sketchfab:categories">>
      [] OTHER -> <<>>

\* the lifetime each read passes to cacheSet
LibTtl(fn) ==
    CASE fn = "searchSketchfabModels" -> HOUR_MS
      [] fn = "getPopularSketchfabModels" -> 6 * HOUR_MS
      [] OTHER -> 24 * HOUR_MS

\* searchSketchfabModels awaits hashString before it calls cacheGet
AwaitsHash(fn) == fn = "searchSketchfabModels"

\* what the backend may answer: the body of an ok response, the text of another
LibBodies == {"body1", "body2"}
ErrorTexts == {"", "quota exceeded"}

\* mutant: the response body is dropped
ErrorMessageGeneric(fn, text) == <<"Failed", fn>>

\* text || 'Failed to ...'
ErrorMessage(fn, text) == IF text # "" THEN <<text>> ELSE <<"Failed", fn>>

\* what a function returns for the response body: getSketchfabCategories maps
\* the names to objects, the others return the body as parsed
Returned(fn, body) ==
    IF fn = "getSketchfabCategories" THEN <<"categories", body>> ELSE <<body>>

\* the answer made up when API_KEY is empty; two of them carry new Date()
MockData(fn, t) ==
    IF fn \in {"searchSketchfabModels", "getSketchfabModel"}
    THEN <<"mock", fn, t>> ELSE <<"mock", fn>>

\* an operation that has just issued its fetch
NewLibOp(fn, key) == [pc |-> "fetch", fn |-> fn, key |-> key, http |-> TRUE, value |-> <<>>]

LibInProgress(call) == call.pc \notin {"idle", "done"}

\* the calls g, with those for key k that are in progress told that a record of k
\* was found expired
LibFoundExpired(g, k) ==
    [c \in Clients |->
        IF g[c].key = k /\ LibInProgress(g[c]) THEN [g[c] EXCEPT !.lost = TRUE] ELSE g[c]]

\* the calls after operation o settled with res
LibDeliver(o, res) ==
    [c \in Clients |->
        IF lcall[c].pc = "waiting" /\ lcall[c].handle = o
        THEN [lcall[c] EXCEPT !.pc = "done", !.res = res]
        ELSE lcall[c]]

InitLib ==
    /\ inflight = EmptyMap
    /\ StorageIdle
    /\ CacheClientsIdle
    /\ DedupeIdle
    /\ apiKey = FALSE
    /\ GenIdle
    /\ libKey \in BOOLEAN
    /\ lcall = [c \in Clients |-> IdleLibCall]
    /\ lops = <<>>
    /\ EvalIdle

\* client c calls one of the four reads: the key is built, after a digest for
\* the search, and cacheGet is called and issues get()
LibraryRead(c, fn) ==
    /\ lcall[c].pc = "idle"
    /\ LET key == LibKey(fn)
           during == {d \in Clients \ {c} : LibInProgress(lcall[d]) /\ lcall[d].fn = fn}
           call == [IdleLibCall EXCEPT !.fn = fn, !.key = key, !.during = during]
       IN IF AwaitsHash(fn)
          THEN /\ lcall' = [lcall EXCEPT ![c] = [call EXCEPT !.pc = "hash"]]
               /\ idb' = idb
          ELSE /\ lcall' = [lcall EXCEPT ![c] = [call EXCEPT !.pc = "get"]]
               /\ idb' = Append(idb, [op |-> "get", who |-> c, key |-> key, record |-> <<>>])
    /\ UNCHANGED <<inflight, store, now, ticks, ncalls, lops>>

\* the digest arrives: cacheGet(cacheKey) is called and issues get()
LibHashDone(c) ==
    /\ lcall[c].pc = "hash"
    /\ idb' = Append(idb, [op |-> "get", who |-> c, key |-> lcall[c].key, record |-> <<>>])
    /\ lcall' = [lcall EXCEPT ![c].pc = "get"]
    /\ UNCHANGED <<inflight, store, now, ticks, ncalls, lops>>

\* a read from the return of cacheGet on, for client c with the calls as in g and
\* the transactions as in q: the cached value is returned, or dedupe is called,
\* which hands out the registered promise or starts the operation.  Started,
\* the operation issues its fetch or, with no API key, returns the made-up
\* answer at once, so that its registration is gone before any other task runs.
LibAfterCacheGet(c, g, q, cached) ==
    LET key == g[c].key
        fn == g[c].fn
        existing == DedupeExisting(inflight, key)
        o == Len(lops) + 1
    IN /\ idb' = q
       /\ IF ReturnsCached(cached)
          THEN /\ lcall' = [g EXCEPT ![c].pc = "done", ![c].res = <<"ok", cached[1]>>]
               /\ UNCHANGED <<inflight, lops>>
          ELSE IF existing # NoPromise
          THEN /\ lcall' = [g EXCEPT ![c].pc = "waiting", ![c].handle = existing]
               /\ UNCHANGED <<inflight, lops>>
          ELSE IF libKey
          THEN /\ lops' = Append(lops, NewLibOp(fn, key))
               /\ inflight' = DedupeRegister(inflight, key, o)
               /\ lcall' = [g EXCEPT ![c].pc = "waiting", ![c].handle = o, ![c].own = TRUE]
          ELSE /\ lops' = Append(lops, [NewLibOp(fn, key) EXCEPT
                                           !.pc = "ok", !.http = FALSE,
                                           !.value = MockData(fn, now)])
               /\ inflight' = FinallyCleanup(DedupeRegister(inflight, key, o), key, "ok")
               /\ lcall' = [g EXCEPT ![c].pc = "done", ![c].handle = o, ![c].own = TRUE,
                                     ![c].res = <<"ok", MockData(fn, now)>>]

\* get() completes and cacheGet runs on: it issues del() for an expired record,
\* or returns and the read runs on
LibCacheRead(c) ==
    /\ idb # <<>> /\ Oldest.op = "get" /\ Oldest.who = c
    /\ lcall[c].pc = "get"
    /\ LET k == Oldest.key
           outcome == CacheGetOutcome(store, k, now)
       IN IF outcome = "evict"
          THEN /\ lcall' = LibFoundExpired([lcall EXCEPT ![c].pc = "del"], k)
               /\ idb' = Append(Tail(idb), [op |-> "del", who |-> c, key |-> k, record |-> <<>>])
               /\ UNCHANGED <<inflight, lops>>
          ELSE LibAfterCacheGet(c, lcall, Tail(idb),
                                IF outcome = "hit" THEN <<store[k].value>> ELSE <<>>)
    /\ UNCHANGED <<store, now, ticks, ncalls>>

\* del() completes: cacheGet returns undefined and the read runs on
LibCacheEvicted(c) ==
    /\ idb # <<>> /\ Oldest.op = "del" /\ Oldest.who = c
    /\ lcall[c].pc = "del"
    /\ store' = IdbDel(store, Oldest.key)
    /\ LibAfterCacheGet(c, lcall, Tail(idb), <<>>)
    /\ UNCHANGED <<now, ticks, ncalls>>

\* a fetch of downloadSketchfabModel that has not been answered, 0 if none
PendingDownload ==
    IF \E o \in 1..Len(lops) : lops[o].fn = "downloadSketchfabModel" /\ lops[o].pc = "fetch"
    THEN CHOOSE o \in 1..Len(lops) :
             lops[o].fn = "downloadSketchfabModel" /\ lops[o].pc = "fetch"
    ELSE NoPromise

\* mutant: a call made while a download is under way shares its request
DownloadIssuedShared(c) ==
    IF PendingDownload # NoPromise
    THEN [handle |-> PendingDownload, ops |-> lops]
    ELSE [handle |-> Len(lops) + 1,
          ops |-> Append(lops, NewLibOp("downloadSketchfabModel", <<>>))]

\* the operation a call of downloadSketchfabModel by client c holds, and the
\* operations after the call: the call issues a fetch of its own
DownloadIssued(c) == [handle |-> Len(lops) + 1,
                      ops |-> Append(lops, NewLibOp("downloadSketchfabModel", <<>>))]

\* client c calls downloadSketchfabModel: with no API key the made-up answer is
\* returned, else the POST is issued
DownloadSketchfabModel(c) ==
    /\ lcall[c].pc = "idle"
    /\ LET during == {d \in Clients \ {c} :
                         LibInProgress(lcall[d]) /\ lcall[d].fn = "downloadSketchfabModel"}
           call == [IdleLibCall EXCEPT !.fn = "downloadSketchfabModel", !.during = during]
       IN IF libKey
          THEN /\ lops' = DownloadIssued(c).ops
               /\ lcall' = [lcall EXCEPT ![c] =
                               [call EXCEPT !.pc = "waiting", !.own = TRUE,
                                            !.handle = DownloadIssued(c).handle]]
          ELSE /\ \E r \in MockRandom :
                     lcall' = [lcall EXCEPT ![c] =
                                  [call EXCEPT !.pc = "done",
                                       !.res = <<"ok", <<"mock-download-", r, now>> >>]]
               /\ lops' = lops
    /\ UNCHANGED <<inflight, store, idb, now, ticks, ncalls>>

\* the response to the fetch of operation o arrives, ok with a body or not ok
\* with a text.  Not ok, the function throws; ok, a read stores what it returns
\* and downloadSketchfabModel returns the body.
LibResponds(o, ok, body, text) ==
    /\ o \in 1..Len(lops)
    /\ lops[o].pc = "fetch"
    /\ LET fn == lops[o].fn
           isRead == fn \in Accessors
           value == Returned(fn, body)
       IN IF ~ok
          THEN /\ lops' = [lops EXCEPT ![o].pc = "err", ![o].value = <<text>>]
               /\ inflight' = IF isRead THEN FinallyCleanup(inflight, lops[o].key, "err")
                              ELSE inflight
               /\ lcall' = LibDeliver(o, <<"err", ErrorMessage(fn, text)>>)
               /\ idb' = idb
          ELSE IF isRead
          THEN /\ lops' = [lops EXCEPT ![o].pc = "set", ![o].value = value]
               /\ idb' = Append(idb, [op |-> "set", who |-> o, key |-> lops[o].key,
                                      record |-> CacheSetRecord(value, now, LibTtl(fn))])
               /\ UNCHANGED <<inflight, lcall>>
          ELSE /\ lops' = [lops EXCEPT ![o].pc = "ok", ![o].value = value]
               /\ lcall' = LibDeliver(o, <<"ok", value>>)
               /\ UNCHANGED <<inflight, idb>>
    /\ UNCHANGED <<store, now, ticks, ncalls>>

\* set() completes: cacheSet returns, the operation returns its value, the
\* registration is removed and every caller holding the promise gets the value
LibCacheSetDone(o) ==
    /\ idb # <<>> /\ Oldest.op = "set" /\ Oldest.who = o
    /\ o \in 1..Len(lops)
    /\ lops[o].pc = "set"
    /\ store' = IdbSet(store, Oldest.key, Oldest.record)
    /\ idb' = Tail(idb)
    /\ lops' = [lops EXCEPT ![o].pc = "ok"]
    /\ inflight' = FinallyCleanup(inflight, lops[o].key, "ok")
    /\ lcall' = LibDeliver(o, <<"ok", lops[o].value>>)
    /\ UNCHANGED <<now, ticks, ncalls>>

\* the clock moves past the shortest lifetime, or past the longest
LibClockSteps == {HOUR_MS + 1, 24 * HOUR_MS + 1}

LibFrame == UNCHANGED <<dedupeVars, cacheVars, genVars, evalVars, libKey>>

NextLib ==
    \/ \E d \in LibClockSteps : Tick(d) /\ UNCHANGED <<inflight, lcall, lops>> /\ LibFrame
    \/ \E c \in Clients, fn \in Accessors : LibraryRead(c, fn) /\ LibFrame
    \/ \E c \in Clients : LibHashDone(c) /\ LibFrame
    \/ \E c \in Clients : LibCacheRead(c) /\ LibFrame
    \/ \E c \in Clients : LibCacheEvicted(c) /\ LibFrame
    \/ \E c \in Clients : DownloadSketchfabModel(c) /\ LibFrame
    \/ \E o \in 1..MaxOps, ok \in BOOLEAN, body \in LibBodies, text \in ErrorTexts :
          LibResponds(o, ok, body, text) /\ LibFrame
    \/ \E o \in 1..MaxOps : LibCacheSetDone(o) /\ LibFrame

SpecLib == InitLib /\ [][NextLib]_vars

(***************************************************************************)
(* SpecLookup: cacheGet over whatever get() may hand back.  The store      *)
(* holds, under one key, nothing or an item some earlier process left: a   *)
(* record as cacheSet writes it, a record with fields missing, null, or a  *)
(* string.  A missing field reads as undefined, Date.now() - undefined is  *)
(* NaN, and NaN > ttlMs is false.                                          *)
(***************************************************************************)
StoredAtUndefined == -1

LookupTimes == {0, HOUR_MS, DEFAULT_TTL_MS + 1}

\* the records cacheSet can have written, read at one of LookupTimes
WrittenRecords ==
    { [kind |-> "object", value |-> "v", storedAt |-> 0, ttlMs |-> ttl] :
         ttl \in {TtlUndefined, 0, HOUR_MS} }

\* items that are not such a record
CorruptedItems ==
    { [kind |-> "object", value |-> "v", storedAt |-> StoredAtUndefined, ttlMs |-> ttl] :
         ttl \in {TtlUndefined, HOUR_MS} }
    \cup { [kind |-> "object", value |-> Undefined, storedAt |-> at, ttlMs |-> TtlUndefined] :
             at \in {0, StoredAtUndefined} }
    \cup { [kind |-> k, value |-> Undefined, storedAt |-> StoredAtUndefined,
            ttlMs |-> TtlUndefined] : k \in {"null", "string"} }

\* Date.now() - record.storedAt > ttlMs, for an item that may lack storedAt
ItemExpired(item, t) ==
    /\ item.storedAt # StoredAtUndefined
    /\ t - item.storedAt > EffectiveTtl(item)

\* what cacheGet does with what get() found at time t: it returns undefined
\* (<<>>) or record.value (<<v>>), after del() or without
CacheGetOf(found, t) ==
    IF found = <<>> \/ found[1].kind = "null" THEN [ret |-> <<>>, del |-> FALSE]
    ELSE IF ItemExpired(found[1], t) THEN [ret |-> <<>>, del |-> TRUE]
    ELSE IF found[1].value = Undefined THEN [ret |-> <<>>, del |-> FALSE]
    ELSE [ret |-> <<found[1].value>>, del |-> FALSE]

InitLookup ==
    /\ inflight = EmptyMap
    /\ idb = <<>> /\ ticks = 0 /\ ncalls = 0
    /\ now \in LookupTimes
    /\ \/ store = EmptyMap
       \/ \E item \in WrittenRecords \cup CorruptedItems : store = MapSet(EmptyMap, "k1", item)
    /\ CacheClientsIdle
    /\ DedupeIdle
    /\ apiKey = FALSE
    /\ GenIdle
    /\ LibIdle
    /\ EvalIdle

\* client c calls cacheGet("k1"): get() is issued
LookupCall(c) ==
    /\ ccall[c].pc = "idle"
    /\ idb' = Append(idb, [op |-> "get", who |-> c, key |-> "k1", record |-> <<>>])
    /\ ccall' = [ccall EXCEPT ![c] = [IdleCacheCall EXCEPT !.pc = "get", !.kind = "get",
                                                           !.key = "k1"]]
    /\ UNCHANGED <<store, now, ticks, ncalls, expected>>

\* get() completes and cacheGet runs on: it returns, or issues del()
LookupRead(c) ==
    /\ idb # <<>> /\ Oldest.op = "get" /\ Oldest.who = c
    /\ ccall[c].pc = "get"
    /\ LET k == Oldest.key
           found == IF MapHas(store, k) THEN <<store[k]>> ELSE <<>>
           outcome == CacheGetOf(found, now)
       IN /\ idb' = IF outcome.del
                    THEN Append(Tail(idb), [op |-> "del", who |-> c, key |-> k, record |-> <<>>])
                    ELSE Tail(idb)
          /\ ccall' = [ccall EXCEPT ![c].pc = IF outcome.del THEN "del" ELSE "done",
                                    ![c].res = outcome.ret,
                                    ![c].arg = found]
    /\ UNCHANGED <<store, now, ticks, ncalls, expected>>

\* del() completes: the item is removed and cacheGet returns undefined
LookupEvicted(c) ==
    /\ idb # <<>> /\ Oldest.op = "del" /\ Oldest.who = c
    /\ ccall[c].pc = "del"
    /\ store' = IdbDel(store, Oldest.key)
    /\ idb' = Tail(idb)
    /\ ccall' = [ccall EXCEPT ![c].pc = "done"]
    /\ UNCHANGED <<now, ticks, ncalls, expected>>

NextLookup ==
    \/ \E c \in Clients : LookupCall(c) /\ CacheFrame
    \/ \E c \in Clients : LookupRead(c) /\ CacheFrame
    \/ \E c \in Clients : LookupEvicted(c) /\ CacheFrame

SpecLookup == InitLookup /\ [][NextLookup]_vars

(***************************************************************************)
(* SpecStale: generateModel in a session that begins with a record in the  *)
(* store that an earlier session wrote more than 7 days ago.  Time is      *)
(* counted from the start of this session.                                 *)
(***************************************************************************)
\* when the earlier session stored its result
EarlierSession == 0 - (WEEK_MS + 1)

\* the result an earlier session stored for the request
EarlierResult(input) ==
    BuildResult([NewOp(input, CacheKey(input)) EXCEPT
                    !.taskId = <<"task-", 0>>, !.status = "succeeded",
                    !.modelUrl = "https://provider/model.glb",
                    !.preview = "https://provider/preview.png"], TRUE, EarlierSession)

InitStale ==
    /\ inflight = EmptyMap
    /\ idb = <<>> /\ ticks = 0 /\ ncalls = 0
    /\ now = 0
    /\ \E input \in Inputs :
          store = MapSet(EmptyMap, CacheKey(input),
                         CacheSetRecord(EarlierResult(input), EarlierSession, WEEK_MS))
    /\ CacheClientsIdle
    /\ DedupeIdle
    /\ apiKey \in BOOLEAN
    /\ GenIdle
    /\ LibIdle
    /\ EvalIdle

\* NextGen with the one clock step that lets the timers fire: nothing stored in
\* this session expires in it
NextStale ==
    \/ Tick(POLL_DELAY_MS) /\ UNCHANGED <<inflight, gcall, gops>> /\ GenFrame
    \/ \E c \in Clients, input \in Inputs : GenerateModel(c, input) /\ GenFrame
    \/ \E c \in Clients : HashDone(c) /\ GenFrame
    \/ \E c \in Clients : GenCacheRead(c) /\ GenFrame
    \/ \E c \in Clients : GenCacheEvicted(c) /\ GenFrame
    \/ \E o \in 1..MaxOps, ok \in BOOLEAN : CreateJobResponds(o, ok) /\ GenFrame
    \/ \E o \in 1..MaxOps, j \in StatusResponses : GetJobResponds(o, j) /\ GenFrame
    \/ \E o \in 1..MaxOps : GetJobFails(o) /\ GenFrame
    \/ \E o \in 1..MaxOps : TimerFires(o) /\ GenFrame
    \/ \E o \in 1..MaxOps : GenCacheSetDone(o) /\ GenFrame

SpecStale == InitStale /\ [][NextStale]_vars

(***************************************************************************)
(* SpecRestart: generateModel in a session that begins with a record in    *)
(* the store that an earlier session, run with no API key, wrote an hour   *)
(* ago.  The store is durable; API_KEY is read when the module loads.      *)
(***************************************************************************)
\* when the earlier session stored its result
MockSession == 0 - HOUR_MS

\* the result the earlier session built from the mock's answer
EarlierMockResult(input) ==
    BuildResult([NewOp(input, CacheKey(input)) EXCEPT
                    !.taskId = <<"mock-", "x1">>, !.status = MockResponse.status,
                    !.modelUrl = MockResponse.model_url,
                    !.preview = MockResponse.preview_image], FALSE, MockSession)

InitRestart ==
    /\ inflight = EmptyMap
    /\ idb = <<>> /\ ticks = 0 /\ ncalls = 0
    /\ now = 0
    /\ \E input \in Inputs :
          store = MapSet(EmptyMap, CacheKey(input),
                         CacheSetRecord(EarlierMockResult(input), MockSession, WEEK_MS))
    /\ CacheClientsIdle
    /\ DedupeIdle
    /\ apiKey \in BOOLEAN
    /\ GenIdle
    /\ LibIdle
    /\ EvalIdle

SpecRestart == InitRestart /\ [][NextGen]_vars

(***************************************************************************)
(* SpecEval: the evaluation store (store/evalStore.ts).  Its state lives   *)
(* in memory and starts empty in every process; addFeedback and addMetrics *)
(* append to the list in memory and write that list to the cache; load     *)
(* reads both lists from the cache and replaces the lists in memory.       *)
(* GeneratePage and DashboardPage call load when they mount, SketchfabPage *)
(* never does.  The IndexedDB store outlives the process.                  *)
(***************************************************************************)
FEEDBACK_KEY == "eval:feedbacks"
METRICS_KEY == "eval:metrics"

\* 1000 * 60 * 60 * 24 * 365 = 31,536,000,000 ms, more than the integers of the
\* model checker hold.  The clock of SpecEval stands still, so every lifetime
\* longer than 0 ms behaves alike; the largest integer stands for one year.
EVAL_TTL_MS == 2147483647

MaxEvalCalls == 3

\* the list the store holds under a key, [] without a record
Persisted(key) == IF MapHas(store, key) THEN store[key].value ELSE <<>>

\* a client is between calls of the evalStore
EvalFree(c) == ecall[c].pc \in {"idle", "done"}

\* get().feedbacks / get().metrics
EvalCurrent(fn) == IF fn = "addFeedback" THEN feedbacks ELSE metrics

EvalKey(fn) == IF fn = "addFeedback" THEN FEEDBACK_KEY ELSE METRICS_KEY

\* the body of addFeedback and addMetrics up to its await: next = [...current, x],
\* set({...: next}) and cacheSet(KEY, next, one year), which issues set().
\* Every call adds an entry of its own, named by the ordinal of the call.
EvalAdd(c, fn) ==
    /\ EvalFree(c)
    /\ ncalls < MaxEvalCalls
    /\ ncalls' = ncalls + 1
    /\ LET next == Append(EvalCurrent(fn), ncalls + 1)
       IN /\ feedbacks' = IF fn = "addFeedback" THEN next ELSE feedbacks
          /\ metrics' = IF fn = "addMetrics" THEN next ELSE metrics
          /\ idb' = Append(idb, [op |-> "set", who |-> c, key |-> EvalKey(fn),
                                 record |-> CacheSetRecord(next, now, EVAL_TTL_MS)])
    /\ ecall' = [ecall EXCEPT ![c] = [IdleEvalCall EXCEPT !.pc = "set", !.fn = fn,
                     !.arg = ncalls + 1, !.before = Persisted(EvalKey(fn))]]
    /\ UNCHANGED <<store, now, ticks>>

addFeedback(c) == EvalAdd(c, "addFeedback")

addMetrics(c) == EvalAdd(c, "addMetrics")

\* set() completes: the list is written and the add call returns
EvalSetDone(c) ==
    /\ idb # <<>> /\ Oldest.op = "set" /\ Oldest.who = c
    /\ ecall[c].pc = "set"
    /\ store' = IdbSet(store, Oldest.key, Oldest.record)
    /\ idb' = Tail(idb)
    /\ ecall' = [ecall EXCEPT ![c].pc = "done"]
    /\ UNCHANGED <<now, ticks, ncalls, feedbacks, metrics>>

\* load() is called: cacheGet(FEEDBACK_KEY) issues get()
load(c) ==
    /\ EvalFree(c)
    /\ ncalls < MaxEvalCalls
    /\ ncalls' = ncalls + 1
    /\ idb' = Append(idb, [op |-> "get", who |-> c, key |-> FEEDBACK_KEY, record |-> <<>>])
    /\ ecall' = [ecall EXCEPT ![c] = [IdleEvalCall EXCEPT !.pc = "getF", !.fn = "load"]]
    /\ UNCHANGED <<store, now, ticks, feedbacks, metrics>>

\* (await cacheGet(key)) ?? []: the value of the record found, [] without one.
\* No record of the evalStore outlives its year in the model, so cacheGet takes
\* its del() branch in no step.
LoadValue(key) ==
    IF CacheGetOutcome(store, key, now) = "hit" THEN store[key].value ELSE <<>>

\* the first get() completes: f is bound and cacheGet(METRICS_KEY) issues get()
LoadReadFeedbacks(c) ==
    /\ idb # <<>> /\ Oldest.op = "get" /\ Oldest.who = c
    /\ ecall[c].pc = "getF"
    /\ CacheGetOutcome(store, FEEDBACK_KEY, now) # "evict"
    /\ idb' = Append(Tail(idb), [op |-> "get", who |-> c, key |-> METRICS_KEY,
                                 record |-> <<>>])
    /\ ecall' = [ecall EXCEPT ![c].pc = "getM", ![c].f = LoadValue(FEEDBACK_KEY)]
    /\ UNCHANGED <<store, now, ticks, ncalls, feedbacks, metrics>>

\* the second get() completes: set({ feedbacks: f, metrics: m }) and load returns
LoadReadMetrics(c) ==
    /\ idb # <<>> /\ Oldest.op = "get" /\ Oldest.who = c
    /\ ecall[c].pc = "getM"
    /\ CacheGetOutcome(store, METRICS_KEY, now) # "evict"
    /\ idb' = Tail(idb)
    /\ feedbacks' = ecall[c].f
    /\ metrics' = LoadValue(METRICS_KEY)
    /\ ecall' = [ecall EXCEPT ![c].pc = "done", ![c].m = LoadValue(METRICS_KEY)]
    /\ UNCHANGED <<store, now, ticks, ncalls>>

\* the page is opened again: a new process, whose evalStore is created empty,
\* over the IndexedDB store the earlier one left
NewProcess ==
    /\ \A c \in Clients : EvalFree(c)
    /\ idb = <<>>
    /\ \E c \in Clients : ecall[c].pc = "done"
    /\ feedbacks' = <<>>
    /\ metrics' = <<>>
    /\ ecall' = [c \in Clients |-> IdleEvalCall]
    /\ UNCHANGED storageVars

InitEval ==
    /\ inflight = EmptyMap
    /\ StorageIdle
    /\ CacheClientsIdle
    /\ DedupeIdle
    /\ apiKey = FALSE
    /\ GenIdle
    /\ LibIdle
    /\ EvalIdle

EvalFrame == UNCHANGED <<inflight, dedupeVars, cacheVars, genVars, libVars>>

NextEval ==
    \/ \E c \in Clients : addFeedback(c) /\ EvalFrame
    \/ \E c \in Clients : addMetrics(c) /\ EvalFrame
    \/ \E c \in Clients : EvalSetDone(c) /\ EvalFrame
    \/ \E c \in Clients : load(c) /\ EvalFrame
    \/ \E c \in Clients : LoadReadFeedbacks(c) /\ EvalFrame
    \/ \E c \in Clients : LoadReadMetrics(c) /\ EvalFrame
    \/ NewProcess /\ EvalFrame

SpecEval == InitEval /\ [][NextEval]_vars

(***************************************************************************)
(* Claims about generateModel                                              *)
(***************************************************************************)
\* the pairs <<c, d>> of a returned call c and a call d with the same input that
\* was in progress when c was made and has returned as well
ReturnedPairs ==
    {p \in Clients \X Clients :
        /\ gcall[p[1]].pc = "done"
        /\ p[2] \in DOMAIN gcall[p[1]].overlap
        /\ gcall[p[1]].overlap[p[2]].note # <<>>}

First(p) == gcall[p[1]].overlap[p[2]].note[1]
Second(p) == gcall[p[1]]

\* both got a result, of one and the same task, and they did not both run createJob
OneJob(p) ==
    /\ First(p).res[1] = "ok" /\ Second(p).res[1] = "ok"
    /\ First(p).res[2].id = Second(p).res[2].id
    /\ ~(First(p).own /\ Second(p).own)

C6_RepeatShortCircuit ==
    \A c \in Clients :
        gcall[c].promise # <<>> =>
            /\ gcall[c].pc = "done"
            /\ gcall[c].res = <<"ok", gcall[c].promise[1]>>
            /\ ~gcall[c].own
            /\ gcall[c].handle = NoPromise

C6_Witness ==
    \E c, d \in Clients :
        /\ c # d
        /\ gcall[c].pc = "done" /\ gcall[d].pc = "done"
        /\ gcall[d].own /\ gcall[d].res[1] = "ok"
        /\ gcall[c].promise = <<gcall[d].res[2]>>
        /\ gcall[c].res = gcall[d].res
        /\ gcall[c].overlap = EmptyMap
        /\ now > gcall[c].res[2].createdAt

\* two request objects hold the same fields with the same values
SameFields(i, j) ==
    {i[n] : n \in 1..Len(i)} = {j[n] : n \in 1..Len(j)}

\* C11 as stated: two generateModel calls whose requests hold the same fields
\* with the same values compute the same cache/dedupe key, whatever the order
\* in which the fields were put into the request objects.
C11_Original ==
    \A c, d \in Clients :
        ( /\ gcall[c].pc # "idle" /\ gcall[d].pc # "idle"
          /\ SameFields(gcall[c].input, gcall[d].input) ) =>
            gcall[c].key = gcall[d].key

\* the status reads of the operation answered queued, processing, succeeded
ConvergingSequence(o) == plog[o].seq = Converging

\* C12: every result generateModel returns carries the model_url and the
\* preview_image of the last status answer of its job, and after the answers
\* queued, processing, succeeded its status is succeeded
C12_TerminalConvergence ==
    \A c \in Clients : \A o \in 1..Len(plog) :
        (gcall[c].pc = "done" /\ gcall[c].res[1] = "ok" /\ plog[o].polls > 0) =>
            LET result == gcall[c].res[2]
                final == plog[o].last[1]
            IN /\ result.glbUrl = final.model_url
               /\ result.previewImageUrl = final.preview_image
               /\ (result.status = "succeeded") = (final.status = "succeeded")
               /\ ConvergingSequence(o) => result.status = "succeeded"

C12_Witness ==
    \E c \in Clients :
        /\ gcall[c].pc = "done" /\ gcall[c].res[1] = "ok"
        /\ ConvergingSequence(1)
        /\ gcall[c].res[2].status = "succeeded"
        /\ gcall[c].res[2].glbUrl = "https://provider/model.glb"

\* the fields of a GeneratedModel
GeneratedModelFields ==
    {"id", "inputHash", "createdAt", "status", "glbUrl", "previewImageUrl",
     "provider", "errorMessage"}

\* the job of operation o has never been answered succeeded or failed
NeverTerminal(o) == o \in 1..Len(plog) /\ plog[o].polls > 0 /\ plog[o].pending

\* C13: a caller waiting for an operation of generateModel eventually gets a
\* result object, not an error, and that result has status failed when every
\* status answer of the job said queued or processing
C13_PollingTimeout ==
    \A c \in Clients :
        (gcall[c].pc = "waiting") ~>
            ( /\ gcall[c].pc = "done"
              /\ gcall[c].res[1] = "ok"
              /\ DOMAIN gcall[c].res[2] = GeneratedModelFields
              /\ gcall[c].res[2].status \in {"succeeded", "failed"}
              /\ NeverTerminal(gcall[c].handle) => gcall[c].res[2].status = "failed" )

C13_Witness ==
    \A c \in Clients :
        /\ gcall[c].pc = "done" /\ gcall[c].res[1] = "ok"
        /\ gcall[c].handle = 1
        /\ NeverTerminal(1)
        /\ gcall[c].res[2].status = "failed"

\* C14 as stated: a result returned after the ceiling was reached without a
\* terminal status carries, as errorMessage, the last error any status answer of
\* the job reported
C14_Original ==
    \A c \in Clients :
        ( /\ gcall[c].pc = "done" /\ gcall[c].res[1] = "ok"
          /\ NeverTerminal(gcall[c].handle)
          /\ plog[gcall[c].handle].lastError # Undefined ) =>
              gcall[c].res[2].errorMessage = plog[gcall[c].handle].lastError

\* C15: once a status answer said succeeded or failed, the operation reads no
\* status again and waits for no timer: that answer stays the last one, and the
\* result is built at the time the answer arrived
C15_TerminalStopsPolling ==
    \A o \in 1..Len(plog) :
        plog[o].terminalAt >= 0 =>
            /\ gops[o].pc \in {"set", "ok"}
            /\ plog[o].last[1].status \in {"succeeded", "failed"}
            /\ gops[o].pc = "set" => gops[o].result.createdAt = plog[o].terminalAt
            /\ \A c \in Clients :
                  (gcall[c].pc = "done" /\ gcall[c].res[1] = "ok") =>
                      gcall[c].res[2].createdAt = plog[o].terminalAt

C15_Witness ==
    /\ Len(plog) = 1 /\ plog[1].terminalAt > 0 /\ plog[1].polls >= 2
    /\ plog[1].last[1].status = "failed"
    /\ gops[1].pc = "set"

\* an operation that has a fetch under way: createJob's POST or getJob's GET
FetchPending(op) == op.pc \in {"create", "poll"}

C17_Original ==
    \A c, d \in Clients :
        ( /\ ~apiKey
          /\ gcall[c].pc = "done" /\ gcall[c].own
          /\ gcall[d].pc = "done" /\ gcall[d].own
          /\ gcall[c].input = gcall[d].input ) =>
              /\ gcall[c].res[2].id = gcall[d].res[2].id
              /\ gcall[c].res[2].status = gcall[d].res[2].status
              /\ gcall[c].res[2].glbUrl = gcall[d].res[2].glbUrl
              /\ gcall[c].res[2].previewImageUrl = gcall[d].res[2].previewImageUrl
              /\ gcall[c].res[2].provider = gcall[d].res[2].provider

\* C18 as stated: no record of a generation result with status failed is ever
\* in the cache, and no call is answered from the cache with a failed result
C18_Original ==
    /\ \A k \in DOMAIN store : store[k].value.status = "succeeded"
    /\ \A c \in Clients :
          (gcall[c].pc = "done" /\ gcall[c].handle = NoPromise) =>
              gcall[c].res[2].status = "succeeded"

(***************************************************************************)
(* Claims about the model-library functions                                *)
(***************************************************************************)
IsDownload(call) == call.fn = "downloadSketchfabModel" /\ call.pc # "idle"

\* every call of downloadSketchfabModel holds a request of its own
OwnRequest ==
    \A c \in Clients :
        IsDownload(lcall[c]) =>
            /\ lcall[c].handle \in 1..Len(lops)
            /\ lops[lcall[c].handle].fn = "downloadSketchfabModel"
            /\ lops[lcall[c].handle].http
            /\ \A d \in Clients \ {c} : lcall[d].handle # lcall[c].handle

\* C19: with an API key every call of downloadSketchfabModel issues an HTTP
\* request of its own, whatever other calls are under way or have returned,
\* and no step of such a call changes the registry, the store or the list of
\* IndexedDB transactions
C19_DownloadNeverShared ==
    /\ [](libKey => OwnRequest)
    /\ [][ \A c \in Clients :
              (libKey /\ lcall'[c] # lcall[c] /\ IsDownload(lcall'[c])) =>
                  UNCHANGED <<inflight, store, idb>> ]_vars

C19_Witness ==
    /\ libKey
    /\ \E c \in Clients : \E d \in Clients \ {c} :
          /\ IsDownload(lcall[c]) /\ IsDownload(lcall[d])
          /\ c \in lcall[d].during
          /\ lcall[c].pc = "done" /\ lcall[d].pc = "done"
          /\ lcall[c].handle # lcall[d].handle

\* the HTTP requests issued for function fn
LibRequests(fn) == {o \in 1..Len(lops) : lops[o].fn = fn /\ lops[o].http}

\* c and d have both returned from a call of the same read, d having called
\* while c's call was in progress
Overlapped(c, d) ==
    /\ d # c
    /\ c \in lcall[d].during
    /\ lcall[d].fn \in Accessors
    /\ lcall[c].pc = "done" /\ lcall[d].pc = "done"

\* one request was issued and both callers got the same outcome
Collapsed(c, d) ==
    /\ Cardinality(LibRequests(lcall[d].fn)) = 1
    /\ lcall[c].res = lcall[d].res

LibFailed(c) == lcall[c].pc = "done" /\ lcall[c].res[1] = "err"

\* C21: with an API key, a call whose response is not ok fails with the
\* response text as message, or with the generic message when the text is
\* empty; every operation is the one request of a call that started it, and
\* every record stored or being stored comes from an operation that got an ok
\* response
C21_HttpFailure ==
    /\ \A c \in Clients :
          LibFailed(c) =>
              LET op == lops[lcall[c].handle]
              IN /\ libKey /\ op.http /\ op.pc = "err"
                 /\ lcall[c].res[2] = IF op.value[1] # "" THEN op.value
                                      ELSE <<"Failed", lcall[c].fn>>
    /\ Len(lops) = Cardinality({c \in Clients : lcall[c].own})
    /\ \A k \in DOMAIN store : \E o \in 1..Len(lops) : lops[o].key = k /\ lops[o].pc = "ok"
    /\ \A i \in 1..Len(idb) : idb[i].op = "set" => lops[idb[i].who].pc = "set"

C21_Witness ==
    /\ \A c \in Clients : LibFailed(c)
    /\ \E c \in Clients : lcall[c].fn = "downloadSketchfabModel" /\ lcall[c].res[2] = <<"quota exceeded">>
    /\ \E c \in Clients : lcall[c].fn = "searchSketchfabModels"
                           /\ lcall[c].res[2] = <<"Failed", "searchSketchfabModels">>
    /\ store = EmptyMap

(***************************************************************************)
(* Further claims about the cache                                          *)
(***************************************************************************)
\* C22 as stated: cacheGet returns undefined for a key whose item is not a
\* record as cacheSet writes it
C22_Original ==
    \A c \in Clients :
        (ccall[c].pc = "done" /\ ccall[c].arg # <<>> /\ ccall[c].arg[1] \in CorruptedItems) =>
            ccall[c].res = <<>>

\* client c's get() completes in this step
GetCompletes(c) == ccall[c].pc = "get" /\ ccall'[c].pc # "get"

\* client c's del() completes in this step
EvictCompletes(c) == ccall[c].pc = "del" /\ ccall'[c].pc # "del"

\* the store holds, under client c's key, a record within its lifetime
FindsUnexpired(c) ==
    /\ MapHas(store, ccall[c].key)
    /\ now - store[ccall[c].key].storedAt <= ClaimedTtl(store[ccall[c].key])

\* C29: the step in which cacheGet reads leaves the store as it is, and issues
\* no transaction when it found no record or one within its lifetime; the
\* del() of an expired record leaves the records of all other keys as they
\* are; and every record in the store is as its last write left it, storedAt
\* and ttlMs included, however often it was read
C29_ReadsChangeNothing ==
    /\ [][ \A c \in Clients :
              GetCompletes(c) =>
                  /\ store' = store
                  /\ (~MapHas(store, ccall[c].key) \/ FindsUnexpired(c)) =>
                        (idb' = Tail(idb) /\ ccall'[c].pc = "done") ]_vars
    /\ [][ \A c \in Clients :
              EvictCompletes(c) =>
                  \A k \in DOMAIN store \ {ccall[c].key} :
                      MapHas(store', k) /\ store'[k] = store[k] ]_vars
    /\ [](\A k \in DOMAIN store : MapHas(expected, k) /\ store[k] = expected[k])

\* a record was read twice, the second time late in its lifetime, and is
\* still as it was written
C29_Witness ==
    /\ \A c \in Clients :
          /\ ccall[c].pc = "done" /\ ccall[c].kind = "get" /\ ccall[c].key = "k1"
          /\ ccall[c].res[1] = "value"
    /\ MapHas(store, "k1") /\ store["k1"].storedAt = 0 /\ store["k1"].ttlMs = TtlUndefined
    /\ now = DEFAULT_TTL_MS

(***************************************************************************)
(* Further claims about generateModel                                      *)
(***************************************************************************)
\* operation o has a status read under way: getJob's fetch, or the mock's timer
Polling(running, o) == o \in 1..Len(running) /\ running[o].pc \in {"poll", "mock"}

\* the number of polls that fit into the ceiling, and one more
MostPolls == POLL_CEILING_MS \div POLL_DELAY_MS + 1

\* C23: a status read is started only while less than the ceiling has passed
\* since polling began, and a job that is answered queued or processing
\* throughout is read at most ceiling / 1.5 s + 1 times
C23_BoundedByCeiling ==
    /\ [][ \A o \in 1..MaxOps :
              (Polling(gops', o) /\ ~Polling(gops, o)) =>
                  now' - gops'[o].start < POLL_CEILING_MS ]_vars
    /\ [](\A o \in 1..Len(plog) : plog[o].pending => plog[o].polls <= MostPolls)

C23_Witness ==
    /\ Len(plog) = 1
    /\ plog[1].pending /\ plog[1].polls = MostPolls - 1
    /\ gops[1].pc = "set"
    /\ gops[1].result.createdAt = POLL_CEILING_MS

\* operation o gets a response that is not ok in this step
FailsNow(o) == gops[o].pc \in {"create", "poll"} /\ gops'[o].pc = "err"

\* an operation that has returned or thrown
IsSettled(op) == op.pc \in {"ok", "err"}

\* C24: when createJob or getJob gets a response that is not ok, every caller
\* waiting on the operation gets an error in that step, the step writes nothing
\* to the cache, the registration of the key is removed and no operation is
\* started; no set() is ever pending for a failed operation, an error is
\* returned only by a failed operation, and no call ever joins an operation
\* that has settled, so the next call finds nothing and starts a new job
C24_FailureLeavesNoTrace ==
    /\ [][ \A o \in 1..Len(gops) :
              FailsNow(o) =>
                  /\ \A c \in Clients :
                        (gcall[c].pc = "waiting" /\ gcall[c].handle = o) =>
                            (gcall'[c].pc = "done" /\ gcall'[c].res[1] = "err")
                  /\ store' = store /\ idb' = idb
                  /\ ~MapHas(inflight', gops[o].key)
                  /\ Len(gops') = Len(gops) ]_vars
    /\ [][ \A c \in Clients :
              (gcall'[c].pc = "waiting" /\ gcall[c].pc # "waiting") =>
                  ~IsSettled(gops'[gcall'[c].handle]) ]_vars
    /\ [](\A k \in DOMAIN inflight : ~IsSettled(gops[inflight[k]]))
    /\ [](\A i \in 1..Len(idb) : idb[i].op = "set" => gops[idb[i].who].pc = "set")
    /\ [](\A c \in Clients :
              (gcall[c].pc = "done" /\ gcall[c].res[1] = "err") =>
                  gops[gcall[c].handle].pc = "err")

C24_Witness ==
    /\ store = EmptyMap
    /\ \E c \in Clients : \E d \in Clients \ {c} :
          /\ gcall[c].pc = "done" /\ gcall[c].res[1] = "err" /\ gcall[c].own
          /\ gcall[d].pc = "waiting" /\ gcall[d].own
          /\ gcall[d].input = gcall[c].input
          /\ gcall[d].handle # gcall[c].handle
          /\ gops[gcall[d].handle].pc = "poll"

\* a record that has not reached the end of its lifetime at time t
Fresh(record, t) == t - record.storedAt <= record.ttlMs

\* client c's del() completes in this step
DelCompletes(c) == gcall[c].pc = "del" /\ gcall'[c].pc # "del"

\* C25: the del() that cacheGet issues after reading an expired record never
\* removes a record that is still within its lifetime, and no operation is
\* started for a key whose record in the store is within its lifetime
C25_NoFreshRecordLost ==
    /\ [][ \A c \in Clients :
              (DelCompletes(c) /\ MapHas(store, gcall[c].key)) =>
                  ~Fresh(store[gcall[c].key], now) ]_vars
    /\ [][ Len(gops') > Len(gops) =>
              LET k == gops'[Len(gops')].key
              IN MapHas(store', k) => ~Fresh(store'[k], now) ]_vars

\* both callers read the expired record; the first caller's del() is done and
\* its operation has issued set() for the new result while the second caller's
\* del() is still pending, ahead of that set()
C25_Witness ==
    \E c \in Clients : \E d \in Clients \ {c} :
        /\ gcall[d].pc = "del" /\ gcall[d].key = gcall[c].key
        /\ gcall[c].pc = "waiting" /\ gcall[c].own
        /\ gops[gcall[c].handle].pc = "set"
        /\ Len(idb) = 2 /\ idb[1].op = "del" /\ idb[2].op = "set"
        /\ ~MapHas(store, gcall[c].key)

\* the statuses a GeneratedModel that is returned or stored may have
TerminalStatuses == {"succeeded", "failed"}

\* C26: every result generateModel builds, stores or returns has status
\* succeeded or failed, and succeeded exactly when the last status answer of
\* the job said succeeded, whatever else the answers said
C26_StatusAlwaysTerminal ==
    /\ \A k \in DOMAIN store : store[k].value.status \in TerminalStatuses
    /\ \A o \in 1..Len(gops) :
          gops[o].pc = "set" =>
              /\ gops[o].result.status \in TerminalStatuses
              /\ (gops[o].result.status = "succeeded") = (plog[o].last[1].status = "succeeded")
    /\ \A c \in Clients :
          (gcall[c].pc = "done" /\ gcall[c].res[1] = "ok") =>
              /\ gcall[c].res[2].status \in TerminalStatuses
              /\ \A o \in 1..Len(plog) :
                    (gcall[c].res[2].status = "succeeded") = (plog[o].last[1].status = "succeeded")

C26_Witness ==
    \E c \in Clients :
        /\ gcall[c].pc = "done" /\ gcall[c].res[1] = "ok"
        /\ plog[1].last[1].status = "canceled"
        /\ gcall[c].res[2].status = "failed"
        /\ MapHas(store, gcall[c].key)

\* an answer to a status read of operation o arrives in this step
Answered(o) == o \in 1..Len(plog) /\ plog'[o].polls = plog[o].polls + 1

\* C27 as stated: after every status answer that is not succeeded or failed the
\* operation waits the 1.5 s delay; it does not start the next status read in
\* the step in which the answer arrived
C27_Original ==
    [][ \A o \in 1..MaxOps :
          (Answered(o) /\ plog'[o].last[1].status \notin TerminalStatuses) =>
              (gops'[o].pc = "sleep" /\ gops'[o].wake = now + POLL_DELAY_MS) ]_vars

\* C28 as stated: with an API key no call of generateModel returns a result
\* whose provider is 'mock'
C28_Original ==
    apiKey =>
        \A c \in Clients :
            (gcall[c].pc = "done" /\ gcall[c].res[1] = "ok") =>
                gcall[c].res[2].provider # "mock"

(***************************************************************************)
(* Claims about the evaluation store                                       *)
(***************************************************************************)
\* a is an initial part of b
IsPrefix(a, b) == Len(a) <= Len(b) /\ SubSeq(b, 1, Len(a)) = a

\* the set() of client c's addFeedback or addMetrics completes in this step
AddCompletes(c) == ecall[c].pc = "set" /\ ecall'[c].pc = "done"

\* every call of the process has returned, and there was one
AllCompleted ==
    /\ \A c \in Clients : EvalFree(c)
    /\ \E c \in Clients : ecall[c].pc = "done"
    /\ idb = <<>>

\* C30 as stated: the persisted lists are append-only.  When addFeedback(f) or
\* addMetrics(m) completes, the list stored under its key holds what it held
\* when the call was made, followed by the new entry as its last; and once all
\* calls of a process have completed, the lists in memory equal the stored ones
C30_Original ==
    /\ [][ \A c \in Clients :
             AddCompletes(c) =>
                 LET after == store'[EvalKey(ecall[c].fn)].value
                 IN /\ IsPrefix(ecall[c].before, after)
                    /\ Len(after) > Len(ecall[c].before)
                    /\ after[Len(after)] = ecall[c].arg ]_vars
    /\ [](AllCompleted =>
             /\ feedbacks = Persisted(FEEDBACK_KEY)
             /\ metrics = Persisted(METRICS_KEY))

====
